---- MODULE Spec2Model ----
(***************************************************************************)
(* A model of ldm/invoke/prompt_parser.py: the node classes and their      *)
(* constructors, PromptParser.flatten, the pyparsing grammar built by      *)
(* PromptParser.build_parser_logic, and PromptParser.parse.                *)
(*                                                                         *)
(* Text.  A Python string is a sequence of symbols.  A symbol is one       *)
(* character ("a", " ", "(" ...) or one of the keywords ".swap", ".blend", *)
(* ".and" taken whole: the inputs of the model are the strings in which    *)
(* the characters of a keyword occur only inside that keyword.             *)
(*                                                                         *)
(* Numbers.  A weight is a Python float; the model computes with exact     *)
(* non-negative rationals in lowest terms, [n |-> numerator,               *)
(* d |-> denominator], so 1.1 is 11/10 and 1.1 * 1.1 is 121/100.           *)
(*                                                                         *)
(* Values.  Every Python object is a record with a "type" field naming its *)
(* class.  A Python list held in a field is [type |-> "list"], a pyparsing *)
(* ParseResults is [type |-> "ParseResults"]; both keep their elements in  *)
(* "items".                                                                *)
(***************************************************************************)
EXTENDS Integers, Sequences, FiniteSets, TLC

VARIABLES entry, prompt, args, pc, root, outcome, self, history, written

vars == <<entry, prompt, args, pc, root, outcome, self, history, written>>

\* a local name: F's parameter names the value v wherever F's body uses it
With(v, F(_)) == F(v)

(***************************************************************************)
(* Floats as exact rationals.                                              *)
(***************************************************************************)
RECURSIVE GCD(_, _)
GCD(a, b) == IF b = 0 THEN a ELSE GCD(b, a % b)

Rat(n, d) == LET g == GCD(n, d) IN [n |-> n \div g, d |-> d \div g]

RMul(a, b) == Rat(a.n * b.n, a.d * b.d)

RECURSIVE RPow(_, _)
RPow(b, k) == IF k = 0 THEN Rat(1, 1) ELSE RMul(b, RPow(b, k - 1))

One == Rat(1, 1)

(***************************************************************************)
(* Outcomes of a call: a returned value, or the class of the exception     *)
(* that leaves it.                                                         *)
(***************************************************************************)
None == [type |-> "None"]

Return(v) == [st |-> "ok", val |-> v]

Raise(e) == [st |-> e, val |-> None]

ParsingException == "ParsingException"

(***************************************************************************)
(* Node classes.                                                           *)
(***************************************************************************)
PyList(items) == [type |-> "list", items |-> items]

ParseResults(items) == [type |-> "ParseResults", items |-> items]

PyStr(text) == [type |-> "str", text |-> text]

PyInt(v) == [type |-> "int", value |-> v]

PyTuple(items) == [type |-> "tuple", items |-> items]

\* BaseFragment.__subclasses__, transitively: issubclass(type(c), BaseFragment)
BaseFragmentTypes ==
    {"Fragment", "CrossAttentionControlSubstitute", "CrossAttentionControlAppend"}

\* issubclass(type(x), CrossAttentionControlledFragment)
CrossAttentionControlledFragmentTypes ==
    {"CrossAttentionControlSubstitute", "CrossAttentionControlAppend"}

Fragment(text, weight) == [type |-> "Fragment", text |-> text, weight |-> weight]

Attention(weight, children) ==
    [type |-> "Attention", weight |-> weight, children |-> children]

CrossAttentionControlSubstitute(original, edited) ==
    [type |-> "CrossAttentionControlSubstitute",
     original |-> original, edited |-> edited]

CrossAttentionControlAppend(fragment) ==
    [type |-> "CrossAttentionControlAppend", fragment |-> fragment]

\* Prompt.__init__ without the test of its parts
PromptMutNoCheck(parts) == Return([type |-> "Prompt", children |-> parts])

\* Prompt.__init__: every part is an Attention or a BaseFragment variant
Prompt(parts) ==
    IF \E i \in 1..Len(parts) :
          parts[i].type # "Attention" /\ parts[i].type \notin BaseFragmentTypes
    THEN Raise(ParsingException)
    ELSE Return([type |-> "Prompt", children |-> parts])

\* the exception of the first entry that raised one
FirstRaised(es) ==
    Raise(es[CHOOSE i \in 1..Len(es) :
                es[i].st # "ok" /\ \A j \in 1..i - 1 : es[j].st = "ok"].st)

\* FlattenedPrompt.__init__, one part: a fragment node is kept, a tuple is
\* made a Fragment; part[0] and part[1] of a shorter tuple raise IndexError
FlattenedPromptPart(part) ==
    IF part.type \in BaseFragmentTypes THEN Return(part)
    ELSE IF part.type # "tuple" THEN Raise(ParsingException)
    ELSE IF Len(part.items) < 1 THEN Raise("IndexError")
    ELSE IF part.items[1].type # "str" THEN Raise(ParsingException)
    ELSE IF Len(part.items) < 2 THEN Raise("IndexError")
    ELSE IF part.items[2].type \notin {"float", "int"} THEN Raise(ParsingException)
    ELSE Return(Fragment(part.items[1].text, part.items[2].value))

FlattenedPrompt(parts) ==
    With([i \in 1..Len(parts) |-> FlattenedPromptPart(parts[i])], LAMBDA converted :
        IF \E i \in 1..Len(converted) : converted[i].st # "ok"
        THEN FirstRaised(converted)
        ELSE Return([type |-> "FlattenedPrompt",
                     children |-> [i \in 1..Len(converted) |-> converted[i].val]]))

\* Blend.__init__
BlendMutNoCount(prompts, weights, normalize_weights) ==
    IF \E i \in 1..Len(prompts) : prompts[i].type \notin {"Prompt", "FlattenedPrompt"}
    THEN Raise(ParsingException)
    ELSE Return([type |-> "Blend", prompts |-> prompts, weights |-> weights,
                 normalize_weights |-> normalize_weights])

Blend(prompts, weights, normalize_weights) ==
    IF Len(prompts) # Len(weights)
    THEN Raise(ParsingException)
    ELSE IF \E i \in 1..Len(prompts) :
               prompts[i].type \notin {"Prompt", "FlattenedPrompt"}
         THEN Raise(ParsingException)
         ELSE Return([type |-> "Blend", prompts |-> prompts, weights |-> weights,
                      normalize_weights |-> normalize_weights])

\* Conjunction.__init__; weights = None is the record None.  An entry that is
\* not a Prompt, Blend or FlattenedPrompt is passed to Prompt(x), which
\* iterates it: in the model such an entry is a list of parts.
ConjunctionEntry(x) ==
    IF x.type \in {"Prompt", "Blend", "FlattenedPrompt"}
    THEN Return(x)
    ELSE IF x.type \in {"list", "ParseResults"} THEN Prompt(x.items)
    ELSE IF x.type = "str" /\ x.text # <<>> THEN Raise(ParsingException)
    ELSE Raise("TypeError")

\* self.prompts
ConjunctionEntries(prompts) ==
    [i \in 1..Len(prompts) |-> ConjunctionEntry(prompts[i])]

ConjunctionMutNoCount(prompts, weights) ==
    With(ConjunctionEntries(prompts), LAMBDA es :
        IF \E i \in 1..Len(es) : es[i].st # "ok"
        THEN Raise(es[CHOOSE i \in 1..Len(es) :
                         es[i].st # "ok" /\ \A j \in 1..i - 1 : es[j].st = "ok"].st)
        ELSE Return([type |-> "Conjunction",
                     prompts |-> [i \in 1..Len(es) |-> es[i].val],
                     weights |-> IF weights = None THEN [i \in 1..Len(es) |-> One]
                                 ELSE weights.items]))

Conjunction(prompts, weights) ==
    With(ConjunctionEntries(prompts), LAMBDA es :
        IF \E i \in 1..Len(es) : es[i].st # "ok"
        THEN Raise(es[CHOOSE i \in 1..Len(es) :
                         es[i].st # "ok" /\ \A j \in 1..i - 1 : es[j].st = "ok"].st)
        ELSE IF weights # None /\ Len(weights.items) # Len(es)
             THEN Raise(ParsingException)
             ELSE Return([type |-> "Conjunction",
                          prompts |-> [i \in 1..Len(es) |-> es[i].val],
                          weights |-> IF weights = None THEN [i \in 1..Len(es) |-> One]
                                      ELSE weights.items]))

(***************************************************************************)
(* PromptParser.flatten                                                    *)
(***************************************************************************)
\* result[-1] = Fragment(last_text + ' ' + this_text, last_weight)
FuseInto(result, x) ==
    [result EXCEPT ![Len(result)] =
        Fragment(result[Len(result)].text \o <<" ">> \o x.text,
                 result[Len(result)].weight)]

\* last_weight is not None and last_weight == this_weight
FusesMutNever(result, x) == FALSE

FusesMutAnyWeight(result, x) ==
    /\ Len(result) > 0
    /\ result[Len(result)].type \notin CrossAttentionControlledFragmentTypes

Fuses(result, x) ==
    /\ Len(result) > 0
    /\ result[Len(result)].type \notin CrossAttentionControlledFragmentTypes
    /\ result[Len(result)].weight = x.weight

\* fuse_fragments with a last_weight that outlives a substitute: a Fragment
\* after a substitute is merged into the Fragment before it
LastFragment(result) ==
    LET n == Len(result) IN
    IF n > 0 /\ result[n].type = "Fragment" THEN n
    ELSE IF n > 1 /\ result[n - 1].type = "Fragment" THEN n - 1
    ELSE 0

\* CrossAttentionControlSubstitute(original_fused, edited_fused)
FusedSubstitute(original_fused, edited_fused) ==
    IF original_fused.st # "ok" THEN original_fused
    ELSE IF edited_fused.st # "ok" THEN edited_fused
    ELSE Return(CrossAttentionControlSubstitute(PyList(original_fused.val),
                                                PyList(edited_fused.val)))

RECURSIVE fuse_loopMutAcross(_, _)
fuse_loopMutAcross(items, result) ==
    IF items = <<>> THEN Return(result)
    ELSE IF Head(items).type = "CrossAttentionControlSubstitute"
    THEN With(FusedSubstitute(fuse_loopMutAcross(Head(items).original.items, <<>>),
                              fuse_loopMutAcross(Head(items).edited.items, <<>>)),
              LAMBDA fused :
                  IF fused.st # "ok" THEN fused
                  ELSE fuse_loopMutAcross(Tail(items), Append(result, fused.val)))
    ELSE IF Head(items).type # "Fragment" THEN Raise("AttributeError")
    ELSE With(LastFragment(result), LAMBDA k :
             IF k > 0 /\ result[k].weight = Head(items).weight
             THEN fuse_loopMutAcross(Tail(items),
                     [result EXCEPT ![k] =
                         Fragment(result[k].text \o <<" ">> \o Head(items).text,
                                  result[k].weight)])
             ELSE fuse_loopMutAcross(Tail(items), Append(result, Head(items))))

RECURSIVE fuse_loop(_, _)
\* the loop of fuse_fragments over the items left, with the result so far
fuse_loop(items, result) ==
    IF items = <<>> THEN Return(result)
    ELSE IF Head(items).type = "CrossAttentionControlSubstitute"
    THEN With(FusedSubstitute(fuse_loop(Head(items).original.items, <<>>),
                              fuse_loop(Head(items).edited.items, <<>>)),
              LAMBDA fused :
                  IF fused.st # "ok" THEN fused
                  ELSE fuse_loop(Tail(items), Append(result, fused.val)))
    ELSE IF Head(items).type # "Fragment" THEN Raise("AttributeError")
    ELSE IF Fuses(result, Head(items))
         THEN fuse_loop(Tail(items), FuseInto(result, Head(items)))
         ELSE fuse_loop(Tail(items), Append(result, Head(items)))

fuse_fragments(items) == fuse_loop(items, <<>>)

\* results += [Fragment(node.text, node.weight*weight_scale)]
\* the node itself, where the scale is 1
ScaledMutSameNode(node, weight_scale) ==
    IF weight_scale = One THEN node
    ELSE Fragment(node.text, RMul(node.weight, weight_scale))

ScaledMutOwnWeight(node, weight_scale) == Fragment(node.text, node.weight)

ScaledMutScaleOnly(node, weight_scale) == Fragment(node.text, weight_scale)

Scaled(node, weight_scale) == Fragment(node.text, RMul(node.weight, weight_scale))

\* flatten_internal at an Attention: the scale handed to its children
ChildScaleMutReplace(node, weight_scale) == node.weight

ChildScale(node, weight_scale) == RMul(weight_scale, node.weight)

\* flatten_internal at a substitute: the scale handed to its two sides
SideScaleMutReset(weight_scale) == One

SideScale(weight_scale) == weight_scale

\* results += [Blend(prompts=flattened_subprompts, weights=node.weights)]
flattened_blendMutRawPrompts(node, flattened_subprompts) ==
    Blend(node.prompts, node.weights, TRUE)

\* the Blend of the flattened sub-prompts in reverse order
flattened_blendMutReversed(node, flattened_subprompts) ==
    Blend([i \in 1..Len(flattened_subprompts) |->
              flattened_subprompts[Len(flattened_subprompts) + 1 - i]],
          node.weights, TRUE)

flattened_blend(node, flattened_subprompts) ==
    Blend(flattened_subprompts, node.weights, TRUE)

\* results += [x], where making x may have raised
Add(results, x) == IF x.st # "ok" THEN x ELSE Return(Append(results, x.val))

\* results += [CrossAttentionControlSubstitute(original, edited)]
FlattenedSubstitute(original, edited) ==
    IF original.st # "ok" THEN original
    ELSE IF edited.st # "ok" THEN edited
    ELSE Return(CrossAttentionControlSubstitute(PyList(original.val), PyList(edited.val)))

\* FlattenedPrompt(parts=fuse_fragments(flattened_prompt))
FusedPrompt(flattened_prompt) ==
    IF flattened_prompt.st # "ok" THEN flattened_prompt
    ELSE With(fuse_fragments(flattened_prompt.val), LAMBDA fused :
             IF fused.st # "ok" THEN fused ELSE FlattenedPrompt(fused.val))

RECURSIVE flatten_internal(_, _, _), flatten_each(_, _, _)
\* for x in items: results = flatten_internal(x, weight_scale, results)
flatten_each(items, weight_scale, results) ==
    IF items = <<>> THEN Return(results)
    ELSE With(flatten_internal(Head(items), weight_scale, results), LAMBDA r :
             IF r.st # "ok" THEN r
             ELSE flatten_each(Tail(items), weight_scale, r.val))

flatten_internal(node, weight_scale, results) ==
    CASE node.type = "ParseResults" ->
           flatten_each(node.items, weight_scale, results)
      [] node.type = "Attention" ->
           flatten_each(node.children, ChildScale(node, weight_scale), results)
      [] node.type = "Fragment" ->
           Return(Append(results, Scaled(node, weight_scale)))
      [] node.type = "CrossAttentionControlSubstitute" ->
           Add(results,
               FlattenedSubstitute(
                   flatten_internal(node.original, SideScale(weight_scale), <<>>),
                   flatten_internal(node.edited, SideScale(weight_scale), <<>>)))
      [] node.type = "Blend" ->
           With(flatten_each(node.prompts, weight_scale, <<>>),
                LAMBDA flattened_subprompts :
                    IF flattened_subprompts.st # "ok" THEN flattened_subprompts
                    ELSE Add(results, flattened_blend(node, flattened_subprompts.val)))
      [] node.type = "Prompt" ->
           Add(results, FusedPrompt(flatten_each(node.children, weight_scale, <<>>)))
      [] OTHER -> Raise(ParsingException)

RECURSIVE flatten_parts(_, _)
\* for part in root.prompts: flattened_parts += flatten_internal(part, 1.0, [])
flatten_parts(parts, flattened_parts) ==
    IF parts = <<>> THEN Return(flattened_parts)
    ELSE With(flatten_internal(Head(parts), One, <<>>), LAMBDA r :
             IF r.st # "ok" THEN r
             ELSE flatten_parts(Tail(parts), flattened_parts \o r.val))

RECURSIVE repr_raises(_)
\* repr(node) raises TypeError: CrossAttentionControlAppend.__repr__ returns a
\* tuple, and the __repr__ of every other node formats the nodes under it
repr_raises(node) ==
    CASE node.type = "CrossAttentionControlAppend" -> TRUE
      [] node.type \in {"Conjunction", "Blend"} ->
           \E i \in 1..Len(node.prompts) : repr_raises(node.prompts[i])
      [] node.type \in {"Prompt", "FlattenedPrompt", "Attention"} ->
           \E i \in 1..Len(node.children) : repr_raises(node.children[i])
      [] node.type \in {"list", "ParseResults"} ->
           \E i \in 1..Len(node.items) : repr_raises(node.items[i])
      [] node.type = "CrossAttentionControlSubstitute" ->
           repr_raises(node.original) \/ repr_raises(node.edited)
      [] OTHER -> FALSE

\* str(weight) of a float: Python writes every float value differently
str_float(weight) == <<"float", ToString(weight.n), "/", ToString(weight.d)>>

RECURSIVE repr(_), repr_list(_), repr_items(_)
\* repr of a list: the repr of its items between brackets
repr_items(items) ==
    IF items = <<>> THEN <<>>
    ELSE IF Len(items) = 1 THEN repr(items[1])
    ELSE repr(items[1]) \o <<", ">> \o repr_items(Tail(items))

repr_list(items) == <<"[">> \o repr_items(items) \o <<"]">>

\* the __repr__ methods, as the sequence of the pieces of the text; defined
\* where no CrossAttentionControlAppend is formatted
repr(node) ==
    CASE node.type = "Fragment" ->
           <<"Fragment:'">> \o node.text \o <<"'@">> \o str_float(node.weight)
      [] node.type = "Prompt" -> <<"Prompt:">> \o repr_list(node.children)
      [] node.type = "FlattenedPrompt" ->
           <<"FlattenedPrompt:">> \o repr_list(node.children)
      [] node.type = "Attention" ->
           <<"Attention:'">> \o repr_list(node.children) \o <<"' @ ">>
           \o str_float(node.weight)
      [] node.type = "CrossAttentionControlSubstitute" ->
           <<"CrossAttentionControlSubstitute:(">> \o repr(node.original)
           \o <<"->">> \o repr(node.edited) \o <<")">>
      [] node.type = "list" -> repr_list(node.items)
      [] node.type = "ParseResults" ->
           <<"ParseResults(">> \o repr_list(node.items) \o <<", {})">>
      [] node.type = "float" -> str_float(node.value)
      [] node.type = "Conjunction" ->
           <<"Conjunction:">> \o repr_list(node.prompts) \o <<" | weights ">>
           \o repr_list([i \in 1..Len(node.weights) |->
                             [type |-> "float", value |-> node.weights[i]]])
      [] node.type = "Blend" ->
           <<"Blend:">> \o repr_list(node.prompts) \o <<" | weights ">>
           \o repr_list([i \in 1..Len(node.weights) |->
                             [type |-> "float", value |-> node.weights[i]]])

\* Blend.__eq__, line 137: the two texts of __repr__ are compared
\* other.__repr__() called as a method raises nothing for a
\* CrossAttentionControlAppend: it returns the tuple, equal to no text
BlendEq(this, other) ==
    IF other.type = "CrossAttentionControlAppend"
    THEN IF repr_raises(this) THEN Raise("TypeError") ELSE Return(FALSE)
    ELSE IF repr_raises(other) \/ repr_raises(this) THEN Raise("TypeError")
    ELSE Return(repr(other) = repr(this))

\* Attention.__eq__, line 70: other.fragment is read once the type and the
\* weight agree, and an Attention has no such attribute
AttentionEq(this, other) ==
    IF other.type # "Attention" THEN Return(FALSE)
    ELSE IF other.weight # this.weight THEN Return(FALSE)
    ELSE Raise("AttributeError")

RECURSIVE eq(_, _), list_eq(_, _)
\* a == b of two lists: unequal lengths give False, otherwise the items are
\* compared in order up to the first pair that differs or raises
list_eq(a, b) ==
    IF Len(a) # Len(b) THEN Return(FALSE)
    ELSE IF a = <<>> THEN Return(TRUE)
    ELSE With(eq(Head(a), Head(b)), LAMBDA r :
             IF r.st # "ok" \/ ~r.val THEN r
             ELSE list_eq(Tail(a), Tail(b)))

\* this == other, i.e. this.__eq__(other), of two distinct objects; each
\* method compares other's field with self's
eq(this, other) ==
    CASE this.type = "Fragment" ->
           Return(other.type = "Fragment" /\ other.text = this.text
                  /\ other.weight = this.weight)
      [] this.type \in {"Prompt", "FlattenedPrompt"} ->
           IF other.type # this.type THEN Return(FALSE)
           ELSE list_eq(other.children, this.children)
      [] this.type = "Attention" -> AttentionEq(this, other)
      [] this.type = "CrossAttentionControlSubstitute" ->
           IF other.type # this.type THEN Return(FALSE)
           ELSE With(eq(other.original, this.original), LAMBDA r :
                    IF r.st # "ok" \/ ~r.val THEN r
                    ELSE eq(other.edited, this.edited))
      [] this.type = "CrossAttentionControlAppend" ->
           IF other.type # this.type THEN Return(FALSE)
           ELSE eq(other.fragment, this.fragment)
      [] this.type = "list" ->
           IF other.type # "list" THEN Return(FALSE)
           ELSE list_eq(this.items, other.items)
      [] this.type = "Conjunction" ->
           IF other.type # this.type THEN Return(FALSE)
           ELSE With(list_eq(other.prompts, this.prompts), LAMBDA r :
                    IF r.st # "ok" \/ ~r.val THEN r
                    ELSE Return(other.weights = this.weights))
      [] this.type = "Blend" -> BlendEq(this, other)

\* a list object: one made by flatten with [], or one of the tree it was given
NewList == [type |-> "list", input |-> FALSE]

InputList == [type |-> "list", input |-> TRUE]

\* flattened_prompt = [] at line 221, replaced by node.children
PromptResultsMutChildren(node) == InputList

\* flattened_prompt = [], the list a Prompt's children are flattened into
PromptResults(node) == NewList

RECURSIVE extended_by(_, _), extended_by_each(_, _)
\* the list objects that flatten_internal(node, weight_scale, results)
\* extends in place with results += [...], results being the object target
extended_by_each(items, target) ==
    UNION {extended_by(items[i], target) : i \in 1..Len(items)}

extended_by(node, target) ==
    CASE node.type = "ParseResults" -> extended_by_each(node.items, target)
      [] node.type = "Attention" -> extended_by_each(node.children, target)
      [] node.type = "Fragment" -> {target}
      [] node.type = "CrossAttentionControlSubstitute" ->
           extended_by(node.original, NewList) \cup extended_by(node.edited, NewList)
           \cup {target}
      [] node.type = "Blend" -> extended_by_each(node.prompts, NewList) \cup {target}
      [] node.type = "Prompt" ->
           extended_by_each(node.children, PromptResults(node)) \cup {target}
      [] OTHER -> {}

\* the list objects a call of flatten extends in place if it runs to its
\* end: flatten_internal(part, 1.0, [], ...), and flattened_parts += ...
extended(r) ==
    IF repr_raises(r) THEN {}
    ELSE {NewList} \cup extended_by_each(r.prompts, NewList)

\* flatten returning Conjunction(flattened_parts) with the default weights
flattenMutDefaultWeights(r) ==
    IF repr_raises(r) THEN Raise("TypeError")
    ELSE With(flatten_parts(r.prompts, <<>>), LAMBDA flattened_parts :
             IF flattened_parts.st # "ok" THEN flattened_parts
             ELSE Conjunction(flattened_parts.val, None))

\* flatten: print("flattening", root) at line 172, then the loop
flatten(r) ==
    IF repr_raises(r) THEN Raise("TypeError")
    ELSE With(flatten_parts(r.prompts, <<>>), LAMBDA flattened_parts :
             IF flattened_parts.st # "ok" THEN flattened_parts
             ELSE Conjunction(flattened_parts.val, PyList(r.weights)))

(***************************************************************************)
(* pyparsing, as build_parser_logic uses it.  A parser element applied to  *)
(* a string s at position loc (1-based) gives POk(position after the       *)
(* match, tokens), PFail (a ParseException, which an alternative or a      *)
(* repetition catches), or PRaise(e) for any other exception, which        *)
(* nothing in pyparsing catches.                                           *)
(***************************************************************************)
ParseException == "ParseException"

POk(loc, toks) == [st |-> "ok", loc |-> loc, toks |-> toks]

PFail == [st |-> ParseException, loc |-> 0, toks |-> <<>>]

PRaise(e) == [st |-> e, loc |-> 0, toks |-> <<>>]

\* pp.MatchFirst, the operator | : the first alternative unless it did not match
MatchFirst(first, rest) == IF first.st # ParseException THEN first ELSE rest

\* pp.And, the operator + : what follows a match r, or r itself if it is none
Then(r, F(_)) == IF r.st # "ok" THEN r ELSE F(r)

\* a parse action that returned the tokens r.val, or raised
Tokens(loc, r) == IF r.st = "ok" THEN POk(loc, r.val) ELSE PRaise(r.st)

\* a parse action that returned the one token r.val, or raised
Token(loc, r) == IF r.st = "ok" THEN POk(loc, <<r.val>>) ELSE PRaise(r.st)

\* string.whitespace and pyparsing's default whitespace, among the symbols
SPACE_CHARS == {" "}

\* pp.nums, among the symbols
Nums == {"1", "2"}

DigitValue(c) == IF c = "1" THEN 1 ELSE 2

At(s, loc) == IF loc <= Len(s) THEN s[loc] ELSE "<end>"

RECURSIVE RunNotIn(_, _, _)
\* the end of the longest run of symbols outside `stop`, from loc
RunNotIn(s, loc, stop) ==
    IF loc > Len(s) \/ s[loc] \in stop THEN loc ELSE RunNotIn(s, loc + 1, stop)

RECURSIVE RunIn(_, _, _)
\* the end of the longest run of symbols of `chars`, from loc
RunIn(s, loc, chars) ==
    IF loc > Len(s) \/ s[loc] \notin chars THEN loc ELSE RunIn(s, loc + 1, chars)

\* ParserElement.preParse with skipWhitespace
SkipWS(s, loc) == RunIn(s, loc, SPACE_CHARS)

\* len(prompt.strip()) == 0
IsBlankMutNoStrip(s) == Len(s) = 0

IsBlank(s) == \A i \in 1..Len(s) : s[i] \in SPACE_CHARS

\* Suppress(Literal(sym)), skipping whitespace first
SuppressLit(s, loc, sym) ==
    With(SkipWS(s, loc), LAMBDA l : IF At(s, l) = sym THEN POk(l + 1, <<>>) ELSE PFail)

lparen(s, loc) == SuppressLit(s, loc, "(")

rparen(s, loc) == SuppressLit(s, loc, ")")

quotes(s, loc) == SuppressLit(s, loc, "\"")

RECURSIVE DecimalValue(_)
DecimalValue(digits) ==
    IF digits = <<>> THEN 0
    ELSE 10 * DecimalValue(SubSeq(digits, 1, Len(digits) - 1))
         + DigitValue(digits[Len(digits)])

PyFloat(v) == [type |-> "float", value |-> v]

\* the symbols from l up to e, as the one token tok makes of them
Matched(s, l, e, tok(_)) == IF e > l THEN POk(e, <<tok(SubSeq(s, l, e - 1))>>) ELSE PFail

\* number = pyparsing_common.real | Word(nums) mapped to float.  real needs a
\* '.', which the symbols hold only at the head of a keyword: there real takes
\* the digits and the '.', and what follows a number in this grammar
\* ('(' , ',' or ')') then fails to match just as it does after Word(nums).
number(s, loc) ==
    With(SkipWS(s, loc), LAMBDA l :
        Matched(s, l, RunIn(s, l, Nums),
                LAMBDA digits : PyFloat(Rat(DecimalValue(digits), 1))))

\* pp.Word(c), skipping whitespace first; the token is a str
Word1(s, loc, c) ==
    With(SkipWS(s, loc), LAMBDA l : Matched(s, l, RunIn(s, l, {c}), PyStr))

\* make_fragment: a str, or the joined strs of a ParseResults
make_fragment(text) == Fragment(text, One)

attention_plus_base == Rat(11, 10)

attention_minus_base == Rat(9, 10)

\* make_attention(x): x[0] is the head, x[1] the list of children
HeadWeightMutLinear(head) ==
    IF head.type = "float" THEN head.value
    ELSE IF head.text[1] = "+" THEN self.attention_plus_base
    ELSE self.attention_minus_base

HeadWeight(head) ==
    IF head.type = "float" THEN head.value
    ELSE RPow(IF head.text[1] = "+" THEN self.attention_plus_base
              ELSE self.attention_minus_base,
              Len(head.text))

make_attention(head, children) == Attention(HeadWeight(head), children)

attention_head(s, loc) ==
    MatchFirst(number(s, loc), MatchFirst(Word1(s, loc, "+"), Word1(s, loc, "-")))

\* the Regex and the closing quote of pp.dbl_quoted_string, no whitespace
\* skipped: the end of the match, or 0
RECURSIVE DblQuotedBody(_, _)
DblQuotedBody(s, loc) ==
    IF At(s, loc) = "<end>" THEN loc
    ELSE IF s[loc] # "\"" THEN DblQuotedBody(s, loc + 1)
    ELSE IF At(s, loc + 1) = "\"" THEN DblQuotedBody(s, loc + 2)
    ELSE loc

dbl_quoted_string(s, loc) ==
    IF At(s, loc) # "\"" THEN 0
    ELSE With(DblQuotedBody(s, loc + 1), LAMBDA e : IF At(s, e) = "\"" THEN e + 1 ELSE 0)

\* fragment_inside_attention: CharsNotIn(SPACE_CHARS+'()'), no whitespace skipped
fragment_inside_attention(s, loc) ==
    Matched(s, loc, RunNotIn(s, loc, SPACE_CHARS \cup {"(", ")"}), make_fragment)

RECURSIVE attention_with_parens(_, _), attention_with_parens_body(_, _),
          nested_items(_, _, _)

\* pp.nested_expr's ZeroOrMore(ignore_expr | ret | content): ignore_expr is
\* pp.quoted_string, ret is the nested expression itself, content is the
\* delimited_list, whose delimiter (the six whitespace characters in a row)
\* never matches and whose ZeroOrMore skips the whitespace after the item.
nested_items(s, loc, acc) ==
    With(dbl_quoted_string(s, SkipWS(s, loc)), LAMBDA q :
        IF q # 0
        THEN nested_items(s, q, Append(acc, PyStr(SubSeq(s, SkipWS(s, loc), q - 1))))
        ELSE With(attention_with_parens_body(s, loc), LAMBDA r :
            IF r.st = "ok" THEN nested_items(s, r.loc, acc \o r.toks)
            ELSE With(MatchFirst(attention_with_parens(s, loc),
                                 fragment_inside_attention(s, loc)),
                      LAMBDA c :
                          IF c.st = "ok"
                          THEN nested_items(s, SkipWS(s, c.loc), acc \o c.toks)
                          ELSE POk(loc, acc))))

attention_with_parens_body(s, loc) ==
    Then(lparen(s, loc), LAMBDA open :
        With(nested_items(s, open.loc, <<>>), LAMBDA items :
            Then(rparen(s, items.loc), LAMBDA close :
                POk(close.loc, <<ParseResults(items.toks)>>))))

attention_with_parens(s, loc) ==
    Then(attention_head(s, loc), LAMBDA head :
        Then(attention_with_parens_body(s, head.loc), LAMBDA body :
            POk(body.loc, <<make_attention(head.toks[1], body.toks[1].items)>>)))

\* attention_without_parens that takes the next word under the head too
attention_without_parensMutRunOn(s, loc) ==
    Then(MatchFirst(Word1(s, loc, "+"), Word1(s, loc, "-")), LAMBDA head :
        Then(fragment_inside_attention(s, head.loc), LAMBDA word :
            With(fragment_inside_attention(s, SkipWS(s, word.loc)), LAMBDA more :
                IF more.st = "ok"
                THEN POk(more.loc, <<make_attention(head.toks[1], word.toks \o more.toks)>>)
                ELSE POk(word.loc, <<make_attention(head.toks[1], word.toks)>>))))

\* the head, and CharsNotIn(SPACE_CHARS+'()') made [[make_fragment(x)]]
attention_without_parens(s, loc) ==
    Then(MatchFirst(Word1(s, loc, "+"), Word1(s, loc, "-")), LAMBDA head :
        Then(fragment_inside_attention(s, head.loc), LAMBDA word :
            POk(word.loc, <<make_attention(head.toks[1], word.toks)>>)))

attention(s, loc) ==
    MatchFirst(attention_with_parens(s, loc), attention_without_parens(s, loc))

\* unquoted_fragment that also stops at a parenthesis, as the fragments
\* inside an attention do
unquoted_fragmentMutStopAtParen(s, loc) ==
    With(SkipWS(s, loc), LAMBDA l :
        Matched(s, l, RunNotIn(s, l, SPACE_CHARS \cup {"\"", "(", ")"}), make_fragment))

\* unquoted_fragment: the symbols hold no backslash, so the Combine is a run
\* of symbols other than whitespace and '"'
unquoted_fragment(s, loc) ==
    With(SkipWS(s, loc), LAMBDA l :
        Matched(s, l, RunNotIn(s, l, SPACE_CHARS \cup {"\""}), make_fragment))

\* pp.Word(pp.printables, exclude_chars=string.whitespace) made make_fragment
word(t, loc) ==
    With(SkipWS(t, loc), LAMBDA l :
        Matched(t, l, RunNotIn(t, l, SPACE_CHARS), make_fragment))

RECURSIVE fragment_items(_, _, _)
\* OneOrMore(attention | Word(printables) -> make_fragment) of parse_fragment_str
fragment_items(t, loc, acc) ==
    With(MatchFirst(attention(t, loc), word(t, loc)), LAMBDA r :
        IF r.st = "ok" THEN fragment_items(t, r.loc, acc \o r.toks) ELSE POk(loc, acc))

\* parse_fragment_str without its test for a blank string
parse_fragment_strMutNoBlank(x0) ==
    With(fragment_items(x0, 1, <<>>), LAMBDA items :
        IF items.toks = <<>> THEN Raise(ParseException)
        ELSE Return(<<ParseResults(items.toks)>>))

\* parse_fragment_str(x): the tokens that replace x
parse_fragment_str(x0) ==
    IF IsBlank(x0) THEN Return(<<make_fragment(<<>>)>>)
    ELSE With(fragment_items(x0, 1, <<>>), LAMBDA items :
             IF items.toks = <<>> THEN Raise(ParseException)
             ELSE Return(<<ParseResults(items.toks)>>))

\* pp.QuotedString(quote_char='"', esc_char='\\'), whitespace skipped first:
\* the position after the closing quote (0: no match), the text between
QuotedStringEnd(s, loc) ==
    With(SkipWS(s, loc), LAMBDA l :
        IF At(s, l) # "\"" THEN 0
        ELSE With(RunNotIn(s, l + 1, {"\""}), LAMBDA e :
                 IF At(s, e) = "\"" THEN e + 1 ELSE 0))

QuotedStringText(s, loc) == SubSeq(s, SkipWS(s, loc) + 1, QuotedStringEnd(s, loc) - 2)

\* quoted_fragment: its parse action is parse_fragment_str wherever it is used,
\* since line 288 sets it on the one shared element
quoted_fragment(s, loc) ==
    With(QuotedStringEnd(s, loc), LAMBDA e :
        IF e = 0 THEN PFail
        ELSE Tokens(e, parse_fragment_str(QuotedStringText(s, loc))))

\* the position after r, or 0
EndOf(r) == IF r.st = "ok" THEN r.loc ELSE 0

\* the three alternatives of parenthesized_fragment, matched without their
\* parse actions (ParserElement.try_parse): the position after the match, or 0
ParenQuotedEnd(s, loc) ==
    EndOf(Then(lparen(s, loc), LAMBDA open :
              With(QuotedStringEnd(s, open.loc), LAMBDA q :
                  IF q = 0 THEN PFail ELSE rparen(s, q))))

ParenEmptyEnd(s, loc) ==
    EndOf(Then(lparen(s, loc), LAMBDA open : rparen(s, open.loc)))

ParenCombinedStart(s, loc) == SkipWS(s, SkipWS(s, loc) + 1)

ParenCombinedEnd(s, loc) ==
    EndOf(Then(lparen(s, loc), LAMBDA open :
              With(SkipWS(s, open.loc), LAMBDA l :
                  With(RunNotIn(s, l, {")"}), LAMBDA e :
                      IF e > l /\ At(s, e) = ")" THEN POk(e + 1, <<>>) ELSE PFail))))

\* one alternative parsed with its parse action
ParenAlternative(s, loc, k) ==
    CASE k = 1 ->
           Tokens(ParenQuotedEnd(s, loc),
                  parse_fragment_str(QuotedStringText(s, SkipWS(s, loc) + 1)))
      [] k = 2 -> POk(ParenEmptyEnd(s, loc), <<make_fragment(<<>>)>>)
      [] OTHER ->
           With(ParenCombinedEnd(s, loc), LAMBDA e :
               Tokens(e, parse_fragment_str(SubSeq(s, ParenCombinedStart(s, loc), e - 2))))

\* parenthesized_fragment: pp.Or takes the longest of the alternatives that
\* match, the first of them when several are as long, and parses it again
\* with its parse action
parenthesized_fragment(s, loc) ==
    With(<<ParenQuotedEnd(s, loc), ParenEmptyEnd(s, loc), ParenCombinedEnd(s, loc)>>,
         LAMBDA ends :
             IF \A k \in 1..3 : ends[k] = 0 THEN PFail
             ELSE ParenAlternative(s, loc,
                     CHOOSE k \in 1..3 :
                         /\ ends[k] # 0
                         /\ \A j \in 1..3 :
                               ends[j] < ends[k] \/ (ends[j] = ends[k] /\ k <= j)))

\* empty_string = "()" | '""' | '("")', each made Fragment("")
empty_string(s, loc) ==
    With(ParenEmptyEnd(s, loc), LAMBDA p :
        IF p # 0 THEN POk(p, <<make_fragment(<<>>)>>)
        ELSE With(SkipWS(s, loc), LAMBDA l :
            IF At(s, l) = "\"" /\ At(s, l + 1) = "\""
            THEN POk(l + 2, <<make_fragment(<<>>)>>)
            ELSE With(SkipWS(s, l + 1), LAMBDA l2 :
                IF /\ At(s, l) = "(" /\ At(s, l2) = "\"" /\ At(s, l2 + 1) = "\""
                   /\ At(s, SkipWS(s, l2 + 2)) = ")"
                THEN POk(SkipWS(s, l2 + 2) + 1, <<make_fragment(<<>>)>>)
                ELSE PFail)))

\* original_fragment = empty_string | quoted_fragment | parenthesized_fragment
\*                     | unquoted_fragment
original_fragment(s, loc) ==
    MatchFirst(empty_string(s, loc),
        MatchFirst(quoted_fragment(s, loc),
            MatchFirst(parenthesized_fragment(s, loc), unquoted_fragment(s, loc))))

\* cross_attention_substitute, with make_cross_attention_substitute
cross_attention_substitute(s, loc) ==
    Then(original_fragment(s, loc), LAMBDA o :
        Then(SuppressLit(s, o.loc, ".swap"), LAMBDA k :
            Then(parenthesized_fragment(s, k.loc), LAMBDA e :
                POk(e.loc, <<CrossAttentionControlSubstitute(o.toks[1], e.toks[1])>>))))

\* prompt_part = cross_attention_substitute | attention | quoted_fragment
\*               | unquoted_fragment
prompt_part(s, loc) ==
    MatchFirst(cross_attention_substitute(s, loc),
        MatchFirst(attention(s, loc),
            MatchFirst(quoted_fragment(s, loc), unquoted_fragment(s, loc))))

RECURSIVE prompt_parts(_, _, _)
\* OneOrMore(prompt_part)
prompt_parts(s, loc, acc) ==
    With(prompt_part(s, loc), LAMBDA r :
        IF r.st = "ok" THEN prompt_parts(s, r.loc, acc \o r.toks)
        ELSE IF r.st # ParseException THEN r
        ELSE IF acc = <<>> THEN PFail ELSE POk(loc, acc))

\* empty: "(" or '"', whitespace, and the same closing
empty(s, loc) ==
    With(SkipWS(s, loc), LAMBDA l :
        With(SkipWS(s, l + 1), LAMBDA l2 :
            IF \/ At(s, l) = "(" /\ At(s, l2) = ")"
               \/ At(s, l) = "\"" /\ At(s, l2) = "\""
            THEN POk(l2 + 1, <<>>)
            ELSE PFail))

\* prompt = (Group(OneOrMore(prompt_part) | empty) + StringEnd()) -> Prompt(x[0])
prompt_rule(s, loc) ==
    Then(MatchFirst(prompt_parts(s, loc, <<>>), empty(s, loc)), LAMBDA g :
        With(SkipWS(s, g.loc), LAMBDA end :
            IF end <= Len(s) THEN PFail ELSE Token(end, Prompt(g.toks))))

\* make_prompt_from_quoted_string(x): x[0] is the quoted string with its quotes
make_prompt_from_quoted_string(x0) ==
    With(SubSeq(x0, 2, Len(x0) - 1), LAMBDA x_unquoted :
        IF IsBlank(x_unquoted) THEN Prompt(<<make_fragment(<<>>)>>)
        ELSE With(prompt_rule(x_unquoted, 1), LAMBDA x_parsed :
                 IF x_parsed.st = "ok" THEN Return(x_parsed.toks[1])
                 ELSE Raise(x_parsed.st)))

\* quoted_prompt = pp.dbl_quoted_string -> make_prompt_from_quoted_string
quoted_prompt(s, loc) ==
    With(SkipWS(s, loc), LAMBDA l :
        With(dbl_quoted_string(s, l), LAMBDA e :
            IF e = 0 THEN PFail
            ELSE Token(e, make_prompt_from_quoted_string(SubSeq(s, l, e - 1)))))

RECURSIVE more_terms(_, _, _), more_weights(_, _, _)
\* the ZeroOrMore("," + quoted_prompt) of pp.delimited_list(quoted_prompt)
more_terms(s, loc, acc) ==
    With(Then(SuppressLit(s, loc, ","), LAMBDA c : quoted_prompt(s, c.loc)), LAMBDA t :
        IF t.st = "ok" THEN more_terms(s, t.loc, acc \o t.toks)
        ELSE IF t.st = ParseException THEN POk(SkipWS(s, loc), acc)
        ELSE t)

\* blend_terms, conjunction_terms
blend_terms(s, loc) ==
    Then(quoted_prompt(s, loc), LAMBDA t : more_terms(s, t.loc, t.toks))

more_weights(s, loc, acc) ==
    With(Then(SuppressLit(s, loc, ","), LAMBDA c : number(s, c.loc)), LAMBDA n :
        IF n.st = "ok" THEN more_weights(s, n.loc, Append(acc, n.toks[1].value))
        ELSE POk(SkipWS(s, loc), acc))

\* blend_weights, conjunction_weights: the floats
blend_weights(s, loc) ==
    Then(number(s, loc), LAMBDA n : more_weights(s, n.loc, <<n.toks[1].value>>))

\* "(" terms ")" keyword "(": shared by blend and the explicit conjunction
TermsThenKeyword(s, loc, keyword) ==
    Then(lparen(s, loc), LAMBDA open :
        Then(blend_terms(s, open.loc), LAMBDA terms :
            Then(rparen(s, terms.loc), LAMBDA close :
                Then(SuppressLit(s, close.loc, keyword), LAMBDA k :
                    Then(lparen(s, k.loc), LAMBDA open2 :
                        POk(open2.loc, terms.toks))))))

\* blend, with its parse action Blend(prompts=x[0][0], weights=x[0][1])
blend(s, loc) ==
    Then(TermsThenKeyword(s, loc, ".blend"), LAMBDA head :
        Then(blend_weights(s, head.loc), LAMBDA weights :
            Then(rparen(s, weights.loc), LAMBDA close :
                Token(close.loc, Blend(head.toks, weights.toks, TRUE)))))

\* make_conjunction that always takes the default weights
make_conjunctionMutDefaultWeights(parts_raw, given, weights) ==
    Conjunction(parts_raw, PyList([i \in 1..Len(parts_raw) |-> One]))

\* make_conjunction(x): weights = x[0][1] if len(x[0])>1 else [1.0]*len(parts_raw)
make_conjunction(parts_raw, given, weights) ==
    Conjunction(parts_raw,
                IF given THEN PyList(weights)
                ELSE PyList([i \in 1..Len(parts_raw) |-> One]))

\* conjunction_with_parens_and_quotes, with make_conjunction
conjunction_with_parens_and_quotes(s, loc) ==
    Then(TermsThenKeyword(s, loc, ".and"), LAMBDA head :
        With(blend_weights(s, head.loc), LAMBDA weights :
            Then(rparen(s, IF weights.st = "ok" THEN weights.loc ELSE head.loc),
                 LAMBDA close :
                     Token(close.loc,
                           make_conjunction(head.toks, weights.st = "ok", weights.toks)))))

RECURSIVE blends_or_prompts(_, _, _)
\* OneOrMore(blend | prompt)
blends_or_prompts(s, loc, acc) ==
    With(MatchFirst(blend(s, loc), prompt_rule(s, loc)), LAMBDA r :
        IF r.st = "ok" THEN blends_or_prompts(s, r.loc, acc \o r.toks)
        ELSE IF r.st # ParseException THEN r
        ELSE IF acc = <<>> THEN PFail ELSE POk(loc, acc))

\* implicit_conjunction, with its parse action Conjunction(x)
implicit_conjunction(s, loc) ==
    Then(blends_or_prompts(s, loc, <<>>), LAMBDA r :
        Token(r.loc, Conjunction(r.toks, None)))

\* conjunction = conjunction_with_parens_and_quotes | implicit_conjunction
conjunction(s, loc) ==
    MatchFirst(conjunction_with_parens_and_quotes(s, loc), implicit_conjunction(s, loc))

\* self.root.parse_string(prompt)[0]
parse_string(s) ==
    With(conjunction(s, 1), LAMBDA r :
        IF r.st = "ok" THEN Return(r.toks[1]) ELSE Raise(r.st))

(***************************************************************************)
(* The calls.  A behaviour is one call on a PromptParser built with the    *)
(* default bases, parse(prompt) or flatten(root), or one call of the Blend *)
(* constructor.  The inputs are every short string over Symbols, and       *)
(* longer strings of the forms the grammar knows.                          *)
(***************************************************************************)
MaxLen == 3

MaxWords == 2

MaxRun == 3

MaxDepth == 2

MaxTerms == 2

MaxChildren == 3

MaxParts == 2

MaxCalls == 3

Symbols == {"a", " ", "(", ")", "+", "-", "2", "\"", ",", ".swap", ".blend", ".and"}

Letters == {"a", "b"}

Two == Rat(2, 1)

Half == Rat(1, 2)

\* every string of at most MaxLen symbols
ShortPrompts == UNION {[1..n -> Symbols] : n \in 0..MaxLen}

RECURSIVE Join(_, _)
\* sep.join(ss)
Join(ss, sep) ==
    IF Len(ss) = 0 THEN <<>>
    ELSE IF Len(ss) = 1 THEN ss[1]
    ELSE ss[1] \o sep \o Join(Tail(ss), sep)

\* one to n items of S joined by sep
Joined(S, n, sep) == UNION {{Join(f, sep) : f \in [1..k -> S]} : k \in 1..n}

\* letters and parentheses with no construct around them, and a trailing '+'
PunctWords ==
    LET core == {<<"a">>, <<"(">>, <<")">>, <<"(", "a">>, <<"a", ")">>,
                 <<"(", ")">>, <<"(", "(">>, <<")", "(">>, <<"a", "(">>,
                 <<"(", "a", ")">>, <<"(", "a", ")", "b">>}
    IN core \cup {w \o <<"+">> : w \in core}

\* words separated by single spaces
LiteralPrompts == Joined(PunctWords, MaxWords, <<" ">>)

WordLists == Joined({<<c>> : c \in Letters}, MaxWords, <<" ">>)

Runs(c) == {[i \in 1..k |-> c] : k \in 1..MaxRun}

Heads == Runs("+") \cup Runs("-") \cup {<<"2">>, <<"1", "2">>}

\* what stands between the parentheses after a head
Bodies ==
    WordLists \cup {<<>>, <<" ", "a">>, <<"a", " ">>, <<"a", " ", "(", "b", ")">>,
                    <<"(", "a", ")", " ", "b">>, <<"\"", "a", "\"">>}

Before == {<<>>, <<"b", " ">>}

After == {<<>>, <<" ", "b">>}

AttentionPrompts ==
    {pre \o h \o <<"(">> \o body \o <<")">> \o post :
        pre \in Before, h \in Heads, body \in Bodies, post \in After}
    \cup {pre \o h \o <<c>> \o post :
            pre \in Before, h \in Runs("+") \cup Runs("-"), c \in Letters, post \in After}

RECURSIVE NestedBodies(_)
\* a word and then an attention around a body nested d - 1 deep
NestedBodies(d) ==
    IF d = 0 THEN {<<"a">>}
    ELSE {<<"b", " ">> \o h \o <<"(">> \o body \o <<")">> :
             h \in {<<"2">>, <<"+">>, <<"-", "-">>}, body \in NestedBodies(d - 1)}

NestedPrompts == UNION {NestedBodies(d) : d \in 1..MaxDepth + 1}

Originals ==
    {<<"\"", "\"">>, <<"\"", " ", "\"">>, <<"\"", "a", "\"">>, <<"\"", "a", " ", "b", "\"">>,
     <<"(", ")">>, <<"(", "a", ")">>, <<"(", "\"", "a", "\"", ")">>, <<"(", "\"", "\"", ")">>,
     <<"(", "\"", " ", "\"", ")">>,
     <<"(", "a", " ", "b", ")">>, <<"a">>, <<"\"", "+", "a", " ", "b", "\"">>}

Editeds ==
    {<<"(", ")">>, <<"(", "a", ")">>, <<"(", "\"", "a", "\"", ")">>, <<"(", "\"", "\"", ")">>,
     <<"(", "\"", " ", "\"", ")">>, <<"(", "b", " ", "a", ")">>,
     <<"(", "\"", "2", "(", "a", ")", " ", "b", "\"", ")">>}

SwapPrompts ==
    {pre \o o \o <<".swap">> \o e \o post :
        pre \in {<<>>, <<"a", " ">>, <<"b", " ", "a", " ">>}, o \in Originals, e \in Editeds,
        post \in {<<>>, <<" ", "a">>, <<" ", "a", " ", "b">>}}

\* quoted prompts
Terms ==
    {<<"\"">> \o t \o <<"\"">> :
        t \in {<<"a">>, <<"a", " ", "b">>, <<"+", "a">>, <<" ">>, <<"2", "(", "a", ")", " ", "b">>}}

WeightNumbers == {<<"1">>, <<"2">>}

\* ("p1", ..., "pn")keyword(w1, ..., wm)
TermPrompt(terms, keyword, weights) ==
    <<"(">> \o Join(terms, <<",", " ">>) \o <<")", keyword, "(">>
    \o Join(weights, <<",">>) \o <<")">>

TermPrompts ==
    UNION {{TermPrompt(terms, k, weights) \o post :
               terms \in [1..n -> Terms], weights \in [1..m -> WeightNumbers],
               k \in {".and", ".blend"}, post \in {<<>>, <<" ", "a">>}} :
           n \in 1..MaxTerms, m \in 0..MaxTerms + 1}

\* a quoted phrase among plain words
QuotedPrompts ==
    {pre \o <<"\"">> \o phrase \o <<"\"">> \o post :
        pre \in Before, phrase \in WordLists, post \in After}

Prompts ==
    ShortPrompts \cup LiteralPrompts \cup AttentionPrompts \cup NestedPrompts
    \cup SwapPrompts \cup TermPrompts \cup QuotedPrompts

\* raw trees, as a caller of flatten may build them
TreeFragments ==
    {Fragment(<<"a">>, One), Fragment(<<"b">>, One), Fragment(<<"a">>, Two)}

TreeAttentions ==
    {Attention(Two, <<Fragment(<<"a">>, One)>>),
     Attention(Half, <<Fragment(<<"a">>, One), Fragment(<<"b">>, One)>>),
     Attention(Two, <<Fragment(<<"b">>, One),
                      Attention(attention_plus_base, <<Fragment(<<"a">>, Two)>>)>>),
     Attention(Two, <<CrossAttentionControlSubstitute(
                          ParseResults(<<Fragment(<<"a">>, One)>>),
                          ParseResults(<<Attention(Half, <<Fragment(<<"b">>, One)>>),
                                         Fragment(<<"a">>, One)>>))>>)}

TreeSubstitutes ==
    {CrossAttentionControlSubstitute(Fragment(<<"a">>, One), Fragment(<<>>, One)),
     CrossAttentionControlSubstitute(
         ParseResults(<<Fragment(<<"a">>, One), Fragment(<<"b">>, One)>>),
         ParseResults(<<Fragment(<<"b">>, One)>>)),
     CrossAttentionControlSubstitute(
         ParseResults(<<Fragment(<<"b">>, One)>>),
         ParseResults(<<Attention(Two, <<Fragment(<<"a">>, One)>>),
                        Fragment(<<"b">>, Two)>>))}

TreeAppends == {CrossAttentionControlAppend(Fragment(<<"b">>, One))}

TreeParts == TreeFragments \cup TreeAttentions \cup TreeSubstitutes \cup TreeAppends

RawPrompts ==
    UNION {{Prompt(c).val : c \in [1..n -> TreeParts]} : n \in 0..MaxChildren}

RawTrees == {Conjunction(<<p>>, None).val : p \in RawPrompts}

\* trees that an earlier call of flatten returned, the empty Conjunction, and
\* a Conjunction of a Blend of FlattenedPrompts
FlatTrees ==
    {flatten(t).val : t \in {u \in RawTrees : flatten(u).st = "ok"}}
    \cup {Conjunction(<<>>, None).val,
          Conjunction(<<Blend(<<FlattenedPrompt(<<Fragment(<<"a">>, One)>>).val,
                                FlattenedPrompt(<<Fragment(<<"b">>, Two)>>).val>>,
                              <<One, Two>>, TRUE).val>>,
                      None).val}

\* raw trees with Blends and with several entries
SubPrompts ==
    {Prompt(<<Fragment(<<"a">>, One), Fragment(<<"b">>, One)>>).val,
     Prompt(<<Fragment(<<"a">>, One), Attention(Two, <<Fragment(<<"a">>, One)>>)>>).val,
     Prompt(<<Fragment(<<"b">>, One)>>).val,
     Prompt(<<>>).val}

RawBlends ==
    UNION {{Blend(ps, ws, nw).val :
               ps \in [1..n -> SubPrompts], ws \in [1..n -> {One, Two}], nw \in BOOLEAN}
           : n \in 0..MaxTerms}

BlendTrees == {Conjunction(<<b>>, None).val : b \in RawBlends}

TopEntries ==
    {Prompt(<<Fragment(<<"a">>, One), Fragment(<<"b">>, One)>>).val,
     Prompt(<<Attention(Two, <<Fragment(<<"a">>, One)>>)>>).val,
     Blend(<<Prompt(<<Fragment(<<"a">>, One)>>).val, Prompt(<<Fragment(<<"b">>, One)>>).val>>,
           <<One, Two>>, TRUE).val,
     Blend(<<Prompt(<<Fragment(<<"b">>, Two)>>).val>>, <<Half>>, FALSE).val}

TopTrees ==
    UNION {{Conjunction(es, PyList(ws)).val :
               es \in [1..n -> TopEntries], ws \in [1..n -> {One, Two}]}
           : n \in 0..MaxParts}

\* a Fragment of a caller's tree, with the identity of the object
Identified(text, weight, id) ==
    [type |-> "Fragment", text |-> text, weight |-> weight, id |-> id]

\* raw trees whose Fragments carry their identity
IdentifiedTrees ==
    {Conjunction(<<p>>, None).val : p \in
        {Prompt(<<Identified(<<"a">>, One, 1), Identified(<<"b">>, One, 2)>>).val,
         Prompt(<<Identified(<<"a">>, One, 1), Identified(<<"a">>, Two, 2),
                  Identified(<<"b">>, Two, 3)>>).val,
         Prompt(<<Attention(Two, <<Identified(<<"a">>, One, 1)>>),
                  CrossAttentionControlSubstitute(
                      ParseResults(<<Identified(<<"a">>, One, 2)>>),
                      ParseResults(<<Identified(<<"b">>, One, 3),
                                     Identified(<<"a">>, One, 4)>>))>>).val,
         Blend(<<Prompt(<<Identified(<<"a">>, One, 1)>>).val,
                 Prompt(<<Identified(<<"b">>, Two, 2)>>).val>>, <<One, One>>, TRUE).val}}

\* arguments of a direct call of Blend(prompts, weights, normalize_weights)
BlendArgPrompts ==
    {Prompt(<<Fragment(<<"a">>, One)>>).val,
     FlattenedPrompt(<<Fragment(<<"b">>, One)>>).val,
     Fragment(<<"a">>, One)}

BlendArgs ==
    [prompts : UNION {[1..n -> BlendArgPrompts] : n \in 0..MaxTerms},
     weights : UNION {[1..n -> {One, Two}] : n \in 0..MaxTerms + 1},
     normalize_weights : BOOLEAN]

\* what a caller may hand to a constructor as one element
CtorParts ==
    {Fragment(<<"a">>, One),
     Attention(Two, <<Fragment(<<"a">>, One)>>),
     CrossAttentionControlSubstitute(PyList(<<Fragment(<<"a">>, One)>>),
                                     PyList(<<Fragment(<<"b">>, One)>>)),
     CrossAttentionControlAppend(Fragment(<<"b">>, One)),
     [type |-> "Prompt", children |-> <<Fragment(<<"a">>, One)>>],
     [type |-> "FlattenedPrompt", children |-> <<Fragment(<<"b">>, One)>>],
     [type |-> "Blend", prompts |-> <<>>, weights |-> <<>>, normalize_weights |-> TRUE],
     PyStr(<<"a">>),
     PyList(<<Fragment(<<"a">>, One)>>),
     ParseResults(<<Fragment(<<"a">>, One)>>),
     PyTuple(<<PyStr(<<"a">>), PyFloat(Two)>>),
     PyTuple(<<PyStr(<<"b">>), PyInt(Two)>>),
     PyTuple(<<PyStr(<<"a">>), PyStr(<<"b">>)>>),
     PyTuple(<<PyFloat(One), PyFloat(One)>>),
     PyTuple(<<PyStr(<<"a">>)>>)}

\* arguments of a direct call of Prompt(parts) or FlattenedPrompt(parts)
PartsArgs == [parts : UNION {[1..n -> CtorParts] : n \in 0..MaxParts}]

\* arguments of a direct call of Conjunction(prompts, weights)
ConjunctionArgs ==
    [prompts : UNION {[1..n -> {c \in CtorParts : c.type # "tuple"}] : n \in 0..MaxParts},
     weights : {None} \cup {PyList(w) : w \in UNION {[1..n -> {One, Two}] : n \in 0..MaxParts}}]

\* nodes a caller may compare with ==, each operand built on its own
EqNodes ==
    {Fragment(<<"a">>, One), Fragment(<<"a">>, Two), Fragment(<<"b">>, One),
     Attention(Two, <<Fragment(<<"a">>, One)>>),
     Attention(Two, <<Fragment(<<"b">>, One)>>),
     Attention(Half, <<Fragment(<<"a">>, One)>>),
     CrossAttentionControlSubstitute(PyList(<<Fragment(<<"a">>, One)>>),
                                     PyList(<<Fragment(<<"b">>, One)>>)),
     CrossAttentionControlSubstitute(PyList(<<Fragment(<<"a">>, One)>>),
                                     PyList(<<>>)),
     CrossAttentionControlAppend(Fragment(<<"b">>, One)),
     CrossAttentionControlAppend(Fragment(<<"a">>, One)),
     Prompt(<<Fragment(<<"a">>, One)>>).val,
     Prompt(<<Fragment(<<"a">>, One), Attention(Two, <<Fragment(<<"a">>, One)>>)>>).val,
     Prompt(<<Fragment(<<"b">>, One), Attention(Two, <<Fragment(<<"a">>, One)>>)>>).val,
     FlattenedPrompt(<<Fragment(<<"a">>, One)>>).val,
     Blend(<<Prompt(<<Fragment(<<"a">>, One)>>).val>>, <<One>>, TRUE).val,
     Blend(<<Prompt(<<Fragment(<<"a">>, One)>>).val>>, <<One>>, FALSE).val,
     Blend(<<Prompt(<<Fragment(<<"a">>, One)>>).val>>, <<Two>>, TRUE).val,
     Blend(<<Prompt(<<Attention(Two, <<Fragment(<<"a">>, One)>>)>>).val>>, <<One>>, TRUE).val,
     Blend(<<Prompt(<<CrossAttentionControlAppend(Fragment(<<"b">>, One))>>).val>>,
           <<One>>, TRUE).val,
     Conjunction(<<Prompt(<<Fragment(<<"a">>, One)>>).val>>, None).val,
     Conjunction(<<Prompt(<<Fragment(<<"a">>, One)>>).val>>, PyList(<<Two>>)).val,
     Conjunction(<<Blend(<<Prompt(<<Fragment(<<"a">>, One)>>).val>>, <<One>>, FALSE).val>>,
                 None).val}

\* operands of this == other
EqArgs == [this : EqNodes, other : EqNodes]

\* texts and trees for the calls made one after another on one instance:
\* among them calls that raise
RepeatPrompts ==
    {<<"\"">>, <<"\"", "a", "\"">>, <<" ">>, <<"+", "+", "a", " ", "b">>,
     <<"\"", "a", "\"", ".swap", "(", "a", ")">>,
     TermPrompt(<<(<<"\"", "a", "\"">>)>>, ".and", <<(<<"1">>), (<<"2">>)>>)}

RepeatTrees ==
    {Conjunction(<<Prompt(<<Fragment(<<"a">>, One), Fragment(<<"b">>, One),
                            Attention(Two, <<Fragment(<<"a">>, One)>>)>>).val>>,
                 None).val,
     Conjunction(<<Prompt(<<CrossAttentionControlAppend(Fragment(<<"b">>, One))>>).val>>,
                 None).val,
     Conjunction(<<FlattenedPrompt(<<Fragment(<<"a">>, One)>>).val>>, None).val}

\* PromptParser.__init__ with its default arguments
NewParser ==
    [attention_plus_base |-> attention_plus_base,
     attention_minus_base |-> attention_minus_base]

\* the instance with every field changed by a call
SelfAfterCallMutNewBase(s) == [s EXCEPT !.attention_plus_base = Two]

\* the instance after parse or flatten: neither assigns a field of self
SelfAfterCall(s) == s

\* the tree a call of flatten was given
GivenTree == IF entry = "flatten" THEN root ELSE None

Init ==
    /\ written = {}
    /\ self = NewParser
    /\ history = <<>>
    /\ outcome = None
    /\ \/ /\ entry = "parse"
          /\ prompt \in Prompts
          /\ args = None
          /\ pc = "parse"
          /\ root = None
       \/ /\ entry = "flatten"
          /\ prompt = <<>>
          /\ args = None
          /\ pc = "flatten"
          /\ root \in RawTrees \cup FlatTrees \cup BlendTrees \cup TopTrees
                       \cup IdentifiedTrees
       \/ /\ entry = "Blend"
          /\ prompt = <<>>
          /\ args \in BlendArgs
          /\ pc = "Blend"
          /\ root = None
       \/ /\ entry \in {"Prompt", "FlattenedPrompt"}
          /\ prompt = <<>>
          /\ args \in PartsArgs
          /\ pc = entry
          /\ root = None
       \/ /\ entry = "Conjunction"
          /\ prompt = <<>>
          /\ args \in ConjunctionArgs
          /\ pc = "Conjunction"
          /\ root = None
       \/ /\ entry = "__eq__"
          /\ prompt = <<>>
          /\ args \in EqArgs
          /\ pc = "__eq__"
          /\ root = None

\* parse, lines 160-161: blank input
ParseBlank ==
    /\ pc = "parse"
    /\ IsBlank(prompt)
    /\ outcome' = Conjunction(
                      <<FlattenedPrompt(
                            <<PyTuple(<<PyStr(<<>>), PyFloat(One)>>)>>).val>>,
                      PyList(<<One>>))
    /\ pc' = "done"
    /\ self' = SelfAfterCall(self)
    /\ UNCHANGED <<entry, prompt, args, root, history, written>>

\* parse, line 163: the grammar
ParseGrammar ==
    /\ pc = "parse"
    /\ ~IsBlank(prompt)
    /\ \E r \in {parse_string(prompt)} :
          IF r.st = "ok"
          THEN /\ root' = r.val
               /\ pc' = "flatten"
               /\ UNCHANGED outcome
          ELSE /\ outcome' = r
               /\ pc' = "done"
               /\ UNCHANGED root
    /\ self' = SelfAfterCall(self)
    /\ UNCHANGED <<entry, prompt, args, history, written>>

\* flatten, called by parse at line 168 or by a caller
Flatten ==
    /\ pc = "flatten"
    /\ outcome' = flatten(root)
    /\ written' = extended(root)
    /\ pc' = "done"
    /\ self' = SelfAfterCall(self)
    /\ UNCHANGED <<entry, prompt, args, root, history>>

\* Blend(prompts, weights, normalize_weights), called by a caller
ConstructBlend ==
    /\ pc = "Blend"
    /\ outcome' = Blend(args.prompts, args.weights, args.normalize_weights)
    /\ pc' = "done"
    /\ UNCHANGED <<entry, prompt, args, root, self, history, written>>

\* Prompt(parts), called by a caller
ConstructPrompt ==
    /\ pc = "Prompt"
    /\ outcome' = Prompt(args.parts)
    /\ pc' = "done"
    /\ UNCHANGED <<entry, prompt, args, root, self, history, written>>

\* FlattenedPrompt(parts), called by a caller
ConstructFlattenedPrompt ==
    /\ pc = "FlattenedPrompt"
    /\ outcome' = FlattenedPrompt(args.parts)
    /\ pc' = "done"
    /\ UNCHANGED <<entry, prompt, args, root, self, history, written>>

\* Conjunction(prompts, weights), called by a caller
ConstructConjunction ==
    /\ pc = "Conjunction"
    /\ outcome' = Conjunction(args.prompts, args.weights)
    /\ pc' = "done"
    /\ UNCHANGED <<entry, prompt, args, root, self, history, written>>

\* this == other, evaluated by a caller
Compare ==
    /\ pc = "__eq__"
    /\ outcome' = eq(args.this, args.other)
    /\ pc' = "done"
    /\ UNCHANGED <<entry, prompt, args, root, self, history, written>>

\* the caller makes another call of parse or flatten on the same instance
NextCall ==
    /\ pc = "done"
    /\ Len(history) < MaxCalls - 1
    /\ \/ entry = "parse" /\ prompt \in RepeatPrompts
       \/ entry = "flatten" /\ root \in RepeatTrees
    /\ history' = Append(history, [entry |-> entry, prompt |-> prompt,
                                   tree |-> GivenTree, outcome |-> outcome])
    /\ \/ /\ entry' = "parse"
          /\ prompt' \in RepeatPrompts
          /\ root' = None
          /\ pc' = "parse"
       \/ /\ entry' = "flatten"
          /\ prompt' = <<>>
          /\ root' \in RepeatTrees
          /\ pc' = "flatten"
    /\ outcome' = None
    /\ written' = {}
    /\ UNCHANGED <<args, self>>

Next ==
    \/ NextCall
    \/ ParseBlank
    \/ ParseGrammar
    \/ Flatten
    \/ ConstructBlend
    \/ ConstructPrompt
    \/ ConstructFlattenedPrompt
    \/ ConstructConjunction
    \/ Compare

Spec == Init /\ [][Next]_vars

(***************************************************************************)
(* The claims.                                                             *)
(***************************************************************************)
Parsed == entry = "parse" /\ pc = "done"

\* Conjunction([FlattenedPrompt([Fragment(text, 1.0)])])
Untouched(text) ==
    Return([type |-> "Conjunction",
            prompts |-> <<[type |-> "FlattenedPrompt",
                           children |-> <<Fragment(text, One)>>]>>,
            weights |-> <<One>>])

\* C1: for every input string, parse ends in one of two ways: it returns a
\* Conjunction, or it raises ParsingException; no other error leaves parse.
C1_ReturnsConjunctionOrRaisesParsingException ==
    Parsed =>
        \/ outcome.st = "ok" /\ outcome.val.type = "Conjunction"
        \/ outcome.st = ParsingException

\* words separated by single spaces, made of letters and parentheses with no
\* head, keyword or quote anywhere, a '+' only as the last symbol of a word
LiteralWords(s) ==
    /\ Len(s) > 0
    /\ \A i \in 1..Len(s) : s[i] \in Letters \cup {"(", ")", "+", " "}
    /\ s[1] # " " /\ s[Len(s)] # " "
    /\ \A i \in 1..Len(s) - 1 : ~(s[i] = " " /\ s[i + 1] = " ")
    /\ \A i \in 1..Len(s) :
          s[i] = "+" => /\ i > 1 /\ s[i - 1] \notin {" ", "+"}
                        /\ (i = Len(s) \/ s[i + 1] = " ")

\* C2: malformed punctuation degrades to literal text: an input of words
\* separated by single spaces, whose parentheses belong to no attention, swap,
\* blend or and construct and whose '+' only trail a word, parses to
\* Conjunction([FlattenedPrompt([Fragment(input, 1.0)])]).
C2_MalformedPunctuationIsLiteralText ==
    (Parsed /\ LiteralWords(prompt)) => outcome = Untouched(prompt)

\* an unbalanced parenthesis, a balanced pair and a trailing '+' in one input
C2_Witness ==
    /\ Parsed
    /\ prompt = <<"(", "a", ")", "b", "+", " ", "(", "(">>
    /\ outcome = Untouched(prompt)

OnlyFragments(side) ==
    /\ side.type = "list"
    /\ \A i \in 1..Len(side.items) : side.items[i].type = "Fragment"

FlattenedPromptShape(p) ==
    /\ p.type = "FlattenedPrompt"
    /\ \A i \in 1..Len(p.children) :
          \/ p.children[i].type = "Fragment"
          \/ /\ p.children[i].type = "CrossAttentionControlSubstitute"
             /\ OnlyFragments(p.children[i].original)
             /\ OnlyFragments(p.children[i].edited)

ConjunctionShape(c) ==
    /\ c.type = "Conjunction"
    /\ \A i \in 1..Len(c.prompts) :
          \/ FlattenedPromptShape(c.prompts[i])
          \/ /\ c.prompts[i].type = "Blend"
             /\ \A j \in 1..Len(c.prompts[i].prompts) :
                   FlattenedPromptShape(c.prompts[i].prompts[j])

\* C3: the shape of every result of parse: the Conjunction holds only
\* FlattenedPrompts and Blends, a Blend only FlattenedPrompts, a FlattenedPrompt
\* only Fragments and substitutes, both sides of a substitute only Fragments;
\* no Attention and no raw Prompt occurs anywhere in it.
C3_ResultShape ==
    (Parsed /\ outcome.st = "ok") => ConjunctionShape(outcome.val)

\* a Blend of two prompts, one of which held an Attention
C3_Witness ==
    /\ Parsed
    /\ outcome.st = "ok"
    /\ \E i \in 1..Len(outcome.val.prompts) :
          /\ outcome.val.prompts[i].type = "Blend"
          /\ Len(outcome.val.prompts[i].prompts) = 2
          /\ \E j \in 1..2 :
                \E k \in 1..Len(outcome.val.prompts[i].prompts[j].children) :
                   outcome.val.prompts[i].prompts[j].children[k] = Fragment(<<"a">>, Two)

\* a call that went through flatten and returned
Flattened == pc = "done" /\ root # None /\ outcome.st = "ok"

\* the words of a text in which words are separated by single spaces
WordCount(text) == 1 + Cardinality({i \in 1..Len(text) : text[i] = " "})

RECURSIVE LeafWeights(_, _), LeafWeightsOf(_, _)
\* for every Fragment of a raw tree, in order: its own weight times the
\* product of the weights of the Attention nodes around it
LeafWeights(node, product) ==
    CASE node.type = "Fragment" -> <<RMul(node.weight, product)>>
      [] node.type = "Attention" ->
           LeafWeightsOf(node.children, RMul(product, node.weight))
      [] node.type = "ParseResults" -> LeafWeightsOf(node.items, product)
      [] node.type = "Prompt" -> LeafWeightsOf(node.children, product)
      [] node.type = "Blend" -> LeafWeightsOf(node.prompts, product)
      [] node.type = "CrossAttentionControlSubstitute" ->
           LeafWeights(node.original, product) \o LeafWeights(node.edited, product)
      [] OTHER -> <<>>

LeafWeightsOf(nodes, product) ==
    IF nodes = <<>> THEN <<>>
    ELSE LeafWeights(Head(nodes), product) \o LeafWeightsOf(Tail(nodes), product)

RECURSIVE EmittedWeights(_), EmittedWeightsOf(_)
\* for every word of a flattened tree, in order: the weight of its Fragment
EmittedWeights(node) ==
    CASE node.type = "Fragment" -> [i \in 1..WordCount(node.text) |-> node.weight]
      [] node.type = "FlattenedPrompt" -> EmittedWeightsOf(node.children)
      [] node.type = "Blend" -> EmittedWeightsOf(node.prompts)
      [] node.type = "CrossAttentionControlSubstitute" ->
           EmittedWeightsOf(node.original.items) \o EmittedWeightsOf(node.edited.items)
      [] OTHER -> <<>>

EmittedWeightsOf(nodes) ==
    IF nodes = <<>> THEN <<>>
    ELSE EmittedWeights(Head(nodes)) \o EmittedWeightsOf(Tail(nodes))

\* C4: weights multiply down the tree: after flattening, every emitted
\* Fragment has its own weight times the product of the weights of all the
\* Attention nodes that enclose it, at any nesting depth.
C4_WeightsMultiplyDownTheTree ==
    Flattened =>
        /\ Len(outcome.val.prompts) = Len(root.prompts)
        /\ \A i \in 1..Len(root.prompts) :
              EmittedWeights(outcome.val.prompts[i]) = LeafWeights(root.prompts[i], One)

\* a Fragment of weight 2 under an Attention of 1.1 under an Attention of 2
C4_Witness ==
    /\ Flattened
    /\ \E i \in 1..Len(root.prompts) :
          /\ root.prompts[i].type = "Prompt"
          /\ \E j \in 1..Len(root.prompts[i].children) :
                root.prompts[i].children[j] =
                    Attention(Two, <<Fragment(<<"b">>, One),
                                     Attention(attention_plus_base,
                                               <<Fragment(<<"a">>, Two)>>)>>)
          /\ \E j \in 1..Len(outcome.val.prompts[i].children) :
                outcome.val.prompts[i].children[j] = Fragment(<<"a">>, Rat(22, 5))

\* the raw Prompts of a tree with the FlattenedPrompts made of them
FlattenedPairs ==
    {<<root.prompts[i], outcome.val.prompts[i]>> :
        i \in {k \in 1..Len(root.prompts) : root.prompts[k].type = "Prompt"}}
    \cup UNION {{<<root.prompts[i].prompts[j], outcome.val.prompts[i].prompts[j]>> :
                    j \in 1..Len(root.prompts[i].prompts)} :
                i \in {k \in 1..Len(root.prompts) : root.prompts[k].type = "Blend"}}

\* one Prompt's flattened buffer, before fusion
Buffer(p) == flatten_each(p.children, One, <<>>).val

RECURSIVE FusionRule(_, _, _)
\* the rule, applied left to right to the items with the result so far; with
\* sides, the two sides of a substitute are fused by the same rule
FusionRule(items, result, sides) ==
    IF items = <<>> THEN result
    ELSE IF /\ Head(items).type = "Fragment"
            /\ Len(result) > 0
            /\ result[Len(result)].type = "Fragment"
            /\ result[Len(result)].weight = Head(items).weight
    THEN FusionRule(Tail(items),
                    [result EXCEPT ![Len(result)] =
                        Fragment(result[Len(result)].text \o <<" ">> \o Head(items).text,
                                 Head(items).weight)],
                    sides)
    ELSE IF sides /\ Head(items).type = "CrossAttentionControlSubstitute"
    THEN FusionRule(Tail(items),
                    Append(result,
                           CrossAttentionControlSubstitute(
                               PyList(FusionRule(Head(items).original.items, <<>>, sides)),
                               PyList(FusionRule(Head(items).edited.items, <<>>, sides)))),
                    sides)
    ELSE FusionRule(Tail(items), Append(result, Head(items)), sides)

\* no two adjacent Fragments of equal weight are left
RunsAreMaximal(items) ==
    \A i \in 1..Len(items) - 1 :
        (items[i].type = "Fragment" /\ items[i + 1].type = "Fragment")
            => items[i].weight # items[i + 1].weight

\* C5 as stated: within one Prompt's flattened buffer a Fragment that follows
\* a Fragment of equal weight is merged into it, with text previous + " " +
\* current, and every other item is appended unchanged.
C5_FusionRuleOtherItemsUnchanged ==
    Flattened =>
        \A pair \in FlattenedPairs :
            pair[2].children = FusionRule(Buffer(pair[1]), <<>>, FALSE)

\* C5, amended: a Fragment that follows a Fragment of equal weight is merged
\* into it; every other Fragment is appended unchanged, and a substitute is
\* appended with each of its two sides fused by the same rule.  So a maximal
\* run of adjacent equal-weight Fragments becomes one Fragment.
C5_FusionRule ==
    Flattened =>
        \A pair \in FlattenedPairs :
            /\ pair[2].children = FusionRule(Buffer(pair[1]), <<>>, TRUE)
            /\ RunsAreMaximal(pair[2].children)

\* a run of two fused before a substitute whose two-word side was fused too
C5_Witness ==
    /\ Flattened
    /\ \E pair \in FlattenedPairs :
          /\ Len(Buffer(pair[1])) = 3
          /\ Buffer(pair[1])[3].type = "CrossAttentionControlSubstitute"
          /\ Len(Buffer(pair[1])[3].original.items) = 2
          /\ Len(pair[2].children) = 2
          /\ pair[2].children[1] = Fragment(<<"b", " ", "a">>, One)
          /\ pair[2].children[2].original.items = <<Fragment(<<"a", " ", "b">>, One)>>

\* C6: a substitute breaks fusion: it is merged with neither the item before
\* nor the item after it, equal-weight Fragments on its two sides stay
\* separate, and the Fragments after it are fused among themselves as if the
\* buffer started after it.
C6_SubstituteBreaksFusion ==
    Flattened =>
        \A pair \in FlattenedPairs :
            \A k \in 1..Len(Buffer(pair[1])) :
                Buffer(pair[1])[k].type = "CrossAttentionControlSubstitute" =>
                    \E c \in {FusionRule(<<Buffer(pair[1])[k]>>, <<>>, TRUE)} :
                        pair[2].children =
                            FusionRule(SubSeq(Buffer(pair[1]), 1, k - 1), <<>>, TRUE)
                            \o c
                            \o FusionRule(SubSeq(Buffer(pair[1]), k + 1,
                                                 Len(Buffer(pair[1]))), <<>>, TRUE)

\* Fragments of one weight before and after a substitute, the two after fused
C6_Witness ==
    /\ Flattened
    /\ \E pair \in FlattenedPairs :
          /\ Len(Buffer(pair[1])) = 4
          /\ Buffer(pair[1])[2].type = "CrossAttentionControlSubstitute"
          /\ Len(pair[2].children) = 3
          /\ pair[2].children[1] = Fragment(<<"a">>, One)
          /\ pair[2].children[2].type = "CrossAttentionControlSubstitute"
          /\ pair[2].children[3] = Fragment(<<"a", " ", "b">>, One)

\* ("p1", ..., "pn")keyword(w1, ..., wm) with m >= 1 weights for n # m prompts
Miscounted(keyword) ==
    UNION {UNION {{TermPrompt(ts, keyword, ws) :
                      ts \in [1..n -> Terms], ws \in [1..m -> WeightNumbers]} :
                  m \in (1..MaxTerms + 1) \ {n}} :
           n \in 1..MaxTerms}

MiscountedAnds == Miscounted(".and")

MiscountedBlends == Miscounted(".blend")

\* C7: the weight count of an explicit conjunction is validated: for
\* ("p1", ..., "pn").and(w1, ..., wm) with a weight list given and m different
\* from n, m < n as well as m > n, parse raises ParsingException and returns
\* no Conjunction.
C7_ConjunctionWeightCountValidated ==
    (Parsed /\ prompt \in MiscountedAnds) => outcome = Raise(ParsingException)

\* ("a").and(1,2): more weights than prompts
C7_Witness ==
    /\ Parsed
    /\ prompt = TermPrompt(<<(<<"\"", "a", "\"">>)>>, ".and", <<(<<"1">>), (<<"2">>)>>)
    /\ outcome = Raise(ParsingException)

\* the Blends of a tree
BlendsIn(tree) ==
    {tree.prompts[i] :
        i \in {k \in 1..Len(tree.prompts) : tree.prompts[k].type = "Blend"}}

\* C8: constructing a Blend whose prompts and weights differ in length raises
\* ParsingException, for a blend written in the input, (...).blend(...), as
\* for a direct constructor call; hence every Blend that exists has
\* len(prompts) = len(weights).
C8_BlendLengthsValidated ==
    /\ (entry = "Blend" /\ pc = "done") =>
          /\ Len(args.prompts) # Len(args.weights) => outcome = Raise(ParsingException)
          /\ outcome.st = "ok" => Len(outcome.val.prompts) = Len(outcome.val.weights)
    /\ (Parsed /\ prompt \in MiscountedBlends) => outcome = Raise(ParsingException)
    /\ root # None =>
          \A b \in BlendsIn(root) : Len(b.prompts) = Len(b.weights)
    /\ (entry \in {"parse", "flatten", "Conjunction"} /\ pc = "done" /\ outcome.st = "ok") =>
          \A b \in BlendsIn(outcome.val) : Len(b.prompts) = Len(b.weights)

\* a direct call of Blend with two prompts and one weight
C8_Witness ==
    /\ entry = "Blend"
    /\ pc = "done"
    /\ Len(args.prompts) = 2
    /\ Len(args.weights) = 1
    /\ \A i \in 1..2 : args.prompts[i].type \in {"Prompt", "FlattenedPrompt"}
    /\ outcome = Raise(ParsingException)

\* C9: for blank input, empty or only whitespace, parse returns
\* Conjunction([FlattenedPrompt([Fragment("", 1.0)])], weights=[1.0]) and
\* never raises.
C9_BlankInput ==
    (Parsed /\ \A i \in 1..Len(prompt) : prompt[i] = " ")
        => outcome = Untouched(<<>>)

\* two spaces
C9_Witness ==
    /\ Parsed
    /\ prompt = <<" ", " ">>
    /\ outcome = Untouched(<<>>)

\* the weight a head stands for, with the default bases 1.1 and 0.9
HeadValue(h) ==
    CASE h[1] = "+" -> RPow(Rat(11, 10), Len(h))
      [] h[1] = "-" -> RPow(Rat(9, 10), Len(h))
      [] OTHER -> Rat(DecimalValue(h), 1)

\* a plain word of weight 1.0, where one stands before or after
Plain(text) ==
    IF text = <<>> THEN <<>>
    ELSE <<Fragment(SelectSeq(text, LAMBDA c : c # " "), One)>>

\* the bodies that start with a word: words separated by single spaces, with
\* a trailing space, or with a parenthesized word among them
WordBodies == {body \in Bodies : body # <<>> /\ body[1] \in Letters}

\* the words of a body, joined by single spaces
BodyText(body) ==
    Join([i \in 1..Len(SelectSeq(body, LAMBDA c : c \in Letters)) |->
             <<SelectSeq(body, LAMBDA c : c \in Letters)[i]>>],
         <<" ">>)

Single(children) ==
    Return([type |-> "Conjunction",
            prompts |-> <<[type |-> "FlattenedPrompt", children |-> children]>>,
            weights |-> <<One>>])

\* C11: attention without parentheses does not run on: a run of k '+' (or
\* '-') directly followed by a word weights only that one word, with 1.1^k
\* (0.9^k); every word before it and after it keeps weight 1.0.
C11_AttentionWithoutParensDoesNotRunOn ==
    Parsed =>
        \A h \in Runs("+") \cup Runs("-"), c \in Letters, pre \in Before, post \in After :
            prompt = pre \o h \o <<c>> \o post
                => outcome = Single(Plain(pre) \o <<Fragment(<<c>>, HeadValue(h))>>
                                    \o Plain(post))

\* b ++a b
C11_Witness ==
    /\ Parsed
    /\ prompt = <<"b", " ", "+", "+", "a", " ", "b">>
    /\ outcome = Single(<<Fragment(<<"b">>, One), Fragment(<<"a">>, Rat(121, 100)),
                          Fragment(<<"b">>, One)>>)

\* the text holds this symbol
Holds(text, sym) == \E i \in 1..Len(text) : text[i] = sym

\* what a quoted prompt of Terms stands for, flattened
TermBranch(term) ==
    [type |-> "FlattenedPrompt",
     children |->
        CASE term = <<"\"", "a", "\"">> -> <<Fragment(<<"a">>, One)>>
          [] term = <<"\"", "a", " ", "b", "\"">> -> <<Fragment(<<"a", " ", "b">>, One)>>
          [] term = <<"\"", "+", "a", "\"">> -> <<Fragment(<<"a">>, Rat(11, 10))>>
          [] term = <<"\"", " ", "\"">> -> <<Fragment(<<>>, One)>>
          [] term = <<"\"", "2", "(", "a", ")", " ", "b", "\"">> ->
               <<Fragment(<<"a">>, Two), Fragment(<<"b">>, One)>>]

\* ("p1", ..., "pn").and(...) with no weights or with n weights, and the
\* Conjunction it stands for
AndCases ==
    UNION {UNION {{[text |-> TermPrompt(ts, ".and", ws),
                    result |-> Return([type |-> "Conjunction",
                                       prompts |-> [i \in 1..n |-> TermBranch(ts[i])],
                                       weights |->
                                           [i \in 1..n |->
                                               IF m = 0 THEN One
                                               ELSE Rat(DecimalValue(ws[i]), 1)]])] :
                      ts \in [1..n -> Terms], ws \in [1..m -> WeightNumbers]} :
                  m \in {0, n}} :
           n \in 1..MaxTerms}

\* C12: for ("p1", ..., "pn").and(...) parse returns a Conjunction with
\* exactly n branches in the written order; with the weight list omitted its
\* weights are n times 1.0, and with n weights given they are exactly those
\* weights, in order, as floats.
C12_ExplicitConjunction ==
    (Parsed /\ Holds(prompt, ".and")) =>
        \A c \in AndCases : prompt = c.text => outcome = c.result

\* ("a b", "+a").and(1,2)
C12_Witness ==
    /\ Parsed
    /\ prompt = TermPrompt(<<(<<"\"", "a", " ", "b", "\"">>), (<<"\"", "+", "a", "\"">>)>>,
                           ".and", <<(<<"1">>), (<<"2">>)>>)
    /\ outcome.st = "ok"
    /\ outcome.val.weights = <<One, Two>>
    /\ outcome.val.prompts[2].children = <<Fragment(<<"a">>, Rat(11, 10))>>

\* the four spellings of a left side: empty, quoted, parenthesized, unquoted
LeftForms == {<<"\"", "\"">>, <<"\"", "a", "\"">>, <<"(", "a", ")">>, <<"a">>}

\* the phrase a side of a .swap stands for, one Fragment
Phrase(side) ==
    <<Fragment(Join([i \in 1..Len(SelectSeq(side, LAMBDA c : c \in Letters)) |->
                        <<SelectSeq(side, LAMBDA c : c \in Letters)[i]>>],
                    <<" ">>),
               One)>>

\* C13: a .swap(...) is recognized for each of the four forms of its left
\* side, an empty string, a quoted phrase, a parenthesized phrase and an
\* unquoted word: each yields one CrossAttentionControlSubstitute whose
\* original is the left phrase and whose edited is the right phrase.
C13_SwapRecognizedForEveryLeftForm ==
    (Parsed /\ Holds(prompt, ".swap")) =>
        \A o \in LeftForms, e \in {<<"(", "a", ")">>, <<"(", "b", " ", "a", ")">>} :
            prompt = o \o <<".swap">> \o e
                => outcome = Single(<<CrossAttentionControlSubstitute(
                                          PyList(Phrase(o)), PyList(Phrase(e)))>>)

\* a side that is empty or holds only whitespace: "", " ", (), (""), (" ")
BlankSide(side) == \A i \in 1..Len(side) : side[i] \in {" ", "\"", "(", ")"}

\* the one substitute of a result that is nothing but a substitute
OnlySubstitute ==
    IF /\ outcome.st = "ok"
       /\ Len(outcome.val.prompts) = 1
       /\ outcome.val.prompts[1].type = "FlattenedPrompt"
       /\ Len(outcome.val.prompts[1].children) = 1
       /\ outcome.val.prompts[1].children[1].type = "CrossAttentionControlSubstitute"
    THEN outcome.val.prompts[1].children[1]
    ELSE None

\* C14: in a .swap, a side that is empty or holds only whitespace ("", " ",
\* (), (""), (" ")) becomes exactly one Fragment with empty text and weight
\* 1.0 in the resulting CrossAttentionControlSubstitute, on the original side
\* as on the edited side.  Checked for the left sides that are quoted or
\* parenthesized.
C14_BlankSwapSide ==
    (Parsed /\ Holds(prompt, ".swap")) =>
        \A o \in Originals \ {<<"a">>}, e \in Editeds :
            (prompt = o \o <<".swap">> \o e /\ (BlankSide(o) \/ BlankSide(e))) =>
                /\ OnlySubstitute # None
                /\ BlankSide(o) => OnlySubstitute.original.items = <<Fragment(<<>>, One)>>
                /\ BlankSide(e) => OnlySubstitute.edited.items = <<Fragment(<<>>, One)>>

\* " ".swap(" ")
C14_Witness ==
    /\ Parsed
    /\ prompt = <<"\"", " ", "\"", ".swap", "(", "\"", " ", "\"", ")">>
    /\ OnlySubstitute =
           CrossAttentionControlSubstitute(PyList(<<Fragment(<<>>, One)>>),
                                           PyList(<<Fragment(<<>>, One)>>))

\* a direct call of this constructor has ended
Constructed(class) == entry = class /\ pc = "done"

\* the fragment nodes: the BaseFragment variants
FragmentNodes == {"Fragment", "CrossAttentionControlSubstitute", "CrossAttentionControlAppend"}

\* a tuple of two items
IsPair(x) == x.type = "tuple" /\ Len(x.items) = 2

\* a (text, weight) pair: a str and a float or an int
IsTextWeightPair(x) ==
    IsPair(x) /\ x.items[1].type = "str" /\ x.items[2].type \in {"float", "int"}

C16_ConjunctionWrapsEntries ==
    (Constructed("Conjunction")
     /\ (args.weights = None \/ Len(args.weights.items) = Len(args.prompts))) =>
        /\ outcome.st = "ok"
        /\ outcome.val.prompts =
               [i \in 1..Len(args.prompts) |->
                   IF args.prompts[i].type \in {"Prompt", "Blend", "FlattenedPrompt"}
                   THEN args.prompts[i]
                   ELSE [type |-> "Prompt", children |-> <<args.prompts[i]>>]]
        /\ args.weights = None =>
               outcome.val.weights = [i \in 1..Len(args.prompts) |-> One]

\* the words of a text joined by single spaces, its quotes left out
WordsOf(text) ==
    Join([i \in 1..Len(SelectSeq(text, LAMBDA c : c \in Letters)) |->
             <<SelectSeq(text, LAMBDA c : c \in Letters)[i]>>],
         <<" ">>)

\* C17: a double-quoted phrase is a valid part of a prompt on its own: for a
\* prompt that holds a balanced quoted phrase not followed by .swap, parse
\* succeeds and the words of the phrase appear in the resulting
\* FlattenedPrompt as plain Fragment text at weight 1.0.
C17_QuotedPhraseIsPlainText ==
    (Parsed /\ prompt \in QuotedPrompts) =>
        outcome = Single(<<Fragment(WordsOf(prompt), One)>>)

\* the CrossAttentionControlAppend nodes among some children, in order
Appends(children) ==
    SelectSeq(children, LAMBDA c : c.type = "CrossAttentionControlAppend")

\* C18: a CrossAttentionControlAppend node is carried through unchanged: when
\* it is a child of a Prompt that is flattened, the call succeeds and the
\* node appears in the resulting FlattenedPrompt, in its place, with the
\* same fragment.
C18_AppendCarriedThrough ==
    (entry = "flatten" /\ pc = "done") =>
        \A i \in 1..Len(root.prompts) :
            (root.prompts[i].type = "Prompt" /\ Appends(root.prompts[i].children) # <<>>) =>
                /\ outcome.st = "ok"
                /\ Appends(outcome.val.prompts[i].children)
                       = Appends(root.prompts[i].children)

RECURSIVE NoAttention(_)
\* the tree holds no Attention node
NoAttention(node) ==
    CASE node.type = "Attention" -> FALSE
      [] node.type \in {"Conjunction", "Blend"} ->
           \A i \in 1..Len(node.prompts) : NoAttention(node.prompts[i])
      [] node.type \in {"Prompt", "FlattenedPrompt"} ->
           \A i \in 1..Len(node.children) : NoAttention(node.children[i])
      [] node.type \in {"list", "ParseResults"} ->
           \A i \in 1..Len(node.items) : NoAttention(node.items[i])
      [] node.type = "CrossAttentionControlSubstitute" ->
           NoAttention(node.original) /\ NoAttention(node.edited)
      [] OTHER -> TRUE

\* C19: flattening an already-flat tree (no Attention nodes, weight scale
\* 1.0), such as the Conjunction returned by an earlier flatten, returns a
\* tree equal to its input.
C19_FlattenFlatTreeReturnsIt ==
    (entry = "flatten" /\ pc = "done" /\ NoAttention(root)) => outcome = Return(root)

C21_EqualityIsStructural ==
    (entry = "__eq__" /\ pc = "done") =>
        /\ outcome.st = "ok"
        /\ outcome.val \in BOOLEAN
        /\ args.this.type = args.other.type =>
               (outcome.val <=> args.this = args.other)

\* the kinds whose comparison is structural: everything but Attention and
\* Blend, with no Attention and no Blend below
RECURSIVE PlainlyCompared(_)
PlainlyCompared(node) ==
    CASE node.type \in {"Attention", "Blend"} -> FALSE
      [] node.type \in {"Prompt", "FlattenedPrompt"} ->
           \A i \in 1..Len(node.children) : PlainlyCompared(node.children[i])
      [] node.type = "Conjunction" ->
           \A i \in 1..Len(node.prompts) : PlainlyCompared(node.prompts[i])
      [] OTHER -> TRUE

\* what does hold: for the other kinds the comparison is structural
C21_OtherKindsStructural ==
    (entry = "__eq__" /\ pc = "done"
     /\ PlainlyCompared(args.this) /\ PlainlyCompared(args.other)) =>
        outcome = Return(args.this = args.other)

\* a sub-prompt flattened on its own
SubPromptAlone(p) == flatten(Conjunction(<<p>>, None).val).val.prompts[1]

\* the Blend made of a raw Blend
BlendOf(raw, b) ==
    /\ b.type = "Blend"
    /\ Len(b.prompts) = Len(raw.prompts)
    /\ b.weights = raw.weights
    /\ \A j \in 1..Len(raw.prompts) :
          /\ b.prompts[j].type = "FlattenedPrompt"
          /\ b.prompts[j] = SubPromptAlone(raw.prompts[j])

\* C22: flattening a Blend of n Prompts yields one Blend of n
\* FlattenedPrompts in the same order, each the flattening and fusion of its
\* own sub-prompt alone (fragments of different sub-prompts are never fused
\* together), with the same weights list as the raw Blend.
C22_BlendFlattenedPerSubPrompt ==
    /\ (entry = "flatten" /\ pc = "done" /\ root \in BlendTrees) => outcome.st = "ok"
    /\ Flattened =>
          \A i \in 1..Len(root.prompts) :
              root.prompts[i].type = "Blend" =>
                  BlendOf(root.prompts[i], outcome.val.prompts[i])

\* a Blend of the prompts b and a b: three fragments of weight 1 in a row,
\* fused within the second sub-prompt only
C22_Witness ==
    /\ entry = "flatten"
    /\ pc = "done"
    /\ Len(root.prompts) = 1
    /\ root.prompts[1].type = "Blend"
    /\ root.prompts[1].weights = <<Two, One>>
    /\ outcome.st = "ok"
    /\ outcome.val.prompts[1].type = "Blend"
    /\ outcome.val.prompts[1].weights = <<Two, One>>
    /\ outcome.val.prompts[1].prompts =
           <<FlattenedPrompt(<<Fragment(<<"b">>, One)>>).val,
             FlattenedPrompt(<<Fragment(<<"a", " ", "b">>, One)>>).val>>

RECURSIVE ScaledLeaves(_, _), ScaledLeavesOf(_, _)
\* the Fragments of one side of a substitute, in order, each with its own
\* weight times the scale in force
ScaledLeaves(node, scale) ==
    CASE node.type = "Fragment" -> <<Fragment(node.text, RMul(node.weight, scale))>>
      [] node.type = "Attention" -> ScaledLeavesOf(node.children, RMul(scale, node.weight))
      [] node.type = "ParseResults" -> ScaledLeavesOf(node.items, scale)
      [] OTHER -> <<>>

ScaledLeavesOf(nodes, scale) ==
    IF nodes = <<>> THEN <<>>
    ELSE ScaledLeaves(Head(nodes), scale) \o ScaledLeavesOf(Tail(nodes), scale)

RECURSIVE ExpectedSubstitutes(_, _), ExpectedSubstitutesOf(_, _)
\* for every substitute of a raw Prompt, in order: the substitute of its two
\* sides, each made of its own Fragments at the scale in force and fused
ExpectedSubstitutes(node, scale) ==
    CASE node.type = "Attention" ->
           ExpectedSubstitutesOf(node.children, RMul(scale, node.weight))
      [] node.type = "ParseResults" -> ExpectedSubstitutesOf(node.items, scale)
      [] node.type = "CrossAttentionControlSubstitute" ->
           <<CrossAttentionControlSubstitute(
                 PyList(FusionRule(ScaledLeaves(node.original, scale), <<>>, FALSE)),
                 PyList(FusionRule(ScaledLeaves(node.edited, scale), <<>>, FALSE)))>>
      [] OTHER -> <<>>

ExpectedSubstitutesOf(nodes, scale) ==
    IF nodes = <<>> THEN <<>>
    ELSE ExpectedSubstitutes(Head(nodes), scale)
         \o ExpectedSubstitutesOf(Tail(nodes), scale)

IsSubstitute(x) == x.type = "CrossAttentionControlSubstitute"

\* C23: flattening a CrossAttentionControlSubstitute emits exactly one
\* substitute node; its original and edited sides are flattened separately
\* from each other and from the surrounding buffer (no fragment moves across
\* a side boundary or is fused across it), and the weight scale in force at
\* the substitute multiplies every fragment inside both sides.
C23_SubstituteFlattenedPerSide ==
    Flattened =>
        \A pair \in FlattenedPairs :
            SelectSeq(pair[2].children, IsSubstitute)
                = ExpectedSubstitutesOf(pair[1].children, One)

\* a substitute under an Attention of weight 2, with an Attention of weight
\* 0.5 in its edited side
C23_Witness ==
    /\ Flattened
    /\ \E pair \in FlattenedPairs :
          /\ Len(pair[1].children) = 2
          /\ pair[1].children[1] = Fragment(<<"a">>, Two)
          /\ pair[1].children[2].type = "Attention"
          /\ pair[2].children =
                 <<Fragment(<<"a">>, Two),
                   CrossAttentionControlSubstitute(
                       PyList(<<Fragment(<<"a">>, Two)>>),
                       PyList(<<Fragment(<<"b">>, One), Fragment(<<"a">>, Two)>>))>>

RECURSIVE FragmentsOf(_)
\* the Fragments of a flattened tree
FragmentsOf(node) ==
    CASE node.type = "Fragment" -> {node}
      [] node.type = "Conjunction" \/ node.type = "Blend" ->
           UNION {FragmentsOf(node.prompts[i]) : i \in 1..Len(node.prompts)}
      [] node.type = "FlattenedPrompt" ->
           UNION {FragmentsOf(node.children[i]) : i \in 1..Len(node.children)}
      [] node.type = "CrossAttentionControlSubstitute" ->
           FragmentsOf(node.original) \cup FragmentsOf(node.edited)
      [] node.type = "list" ->
           UNION {FragmentsOf(node.items[i]) : i \in 1..Len(node.items)}
      [] OTHER -> {}

\* C24: flatten does not modify the tree it is given: after the call every
\* node of the input tree has the same children, text and weight as before,
\* and each fused or rescaled Fragment in the result is a new node, not an
\* input node changed in place.
C24_FlattenLeavesInputAlone ==
    (pc = "done" /\ root # None) =>
        /\ \A list \in written : ~list.input
        /\ outcome.st = "ok" =>
               \A f \in FragmentsOf(outcome.val) : "id" \notin DOMAIN f

\* a tree of identified Fragments: one kept at scale 1, two of them fused
C24_Witness ==
    /\ entry = "flatten"
    /\ pc = "done"
    /\ root.prompts = <<Prompt(<<Identified(<<"a">>, One, 1), Identified(<<"a">>, Two, 2),
                                 Identified(<<"b">>, Two, 3)>>).val>>
    /\ written = {NewList}
    /\ outcome = Single(<<Fragment(<<"a">>, One), Fragment(<<"a", " ", "b">>, Two)>>)

\* the FlattenedPrompts of a returned tree, those inside its Blends included
ResultPrompts ==
    UNION {IF outcome.val.prompts[i].type = "Blend"
           THEN {outcome.val.prompts[i].prompts[j] :
                    j \in 1..Len(outcome.val.prompts[i].prompts)}
           ELSE {outcome.val.prompts[i]} : i \in 1..Len(outcome.val.prompts)}

\* the lists of a FlattenedPrompt: its children and the sides of its substitutes
FusedLists(p) ==
    {p.children}
    \cup UNION {{p.children[k].original.items, p.children[k].edited.items} :
                   k \in {n \in 1..Len(p.children) : IsSubstitute(p.children[n])}}

\* C25: after flattening, in every FlattenedPrompt and in each side of every
\* CrossAttentionControlSubstitute, no two neighbouring items are both plain
\* Fragments with equal weight; applying the fusion pass to such a list again
\* returns it unchanged.
C25_FusionIsComplete ==
    (pc = "done" /\ entry \in {"parse", "flatten"} /\ outcome.st = "ok") =>
        \A p \in ResultPrompts :
            \A items \in FusedLists(p) :
                /\ RunsAreMaximal(items)
                /\ fuse_fragments(items) = Return(items)

\* a substitute with the two Fragments of its original side fused, between
\* Fragments of weights 1 and 2
C25_Witness ==
    /\ Flattened
    /\ \E p \in ResultPrompts :
          /\ Len(p.children) = 3
          /\ p.children[1] = Fragment(<<"a">>, One)
          /\ IsSubstitute(p.children[2])
          /\ p.children[2].original.items = <<Fragment(<<"a", " ", "b">>, One)>>
          /\ p.children[3] = Fragment(<<"a">>, Two)

\* an entry of a raw Conjunction: a Prompt, or a Blend of Prompts
RawEntry(e) ==
    \/ e.type = "Prompt"
    \/ /\ e.type = "Blend"
       /\ \A j \in 1..Len(e.prompts) : e.prompts[j].type = "Prompt"

\* a raw Conjunction whose text flatten can print (C18)
RawConjunction(tree) ==
    /\ \A i \in 1..Len(tree.prompts) : RawEntry(tree.prompts[i])
    /\ ~repr_raises(tree)

\* C26: flatten keeps the top-level structure: for a raw Conjunction of n
\* entries it returns a Conjunction of exactly n entries in the same order
\* (one FlattenedPrompt for each Prompt, one Blend for each Blend) with the
\* same weights list, so len(prompts) = len(weights) holds for the result
\* and the count check of the Conjunction constructor never fails inside
\* flatten.
C26_TopLevelStructureKept ==
    (pc = "done" /\ root # None /\ RawConjunction(root)) =>
        /\ entry = "flatten" => outcome.st = "ok"
        /\ flatten_parts(root.prompts, <<>>).st = "ok" => outcome.st = "ok"
        /\ outcome.st = "ok" =>
              /\ outcome.val.type = "Conjunction"
              /\ Len(outcome.val.prompts) = Len(root.prompts)
              /\ outcome.val.weights = root.weights
              /\ Len(outcome.val.prompts) = Len(outcome.val.weights)
              /\ \A i \in 1..Len(root.prompts) :
                    outcome.val.prompts[i].type =
                        IF root.prompts[i].type = "Prompt" THEN "FlattenedPrompt"
                        ELSE "Blend"

\* a Conjunction of a Prompt and a Blend with the weights 2 and 1
C26_Witness ==
    /\ entry = "flatten"
    /\ pc = "done"
    /\ Len(root.prompts) = 2
    /\ root.prompts[1].type = "Prompt"
    /\ root.prompts[2].type = "Blend"
    /\ root.weights = <<Two, One>>
    /\ outcome.st = "ok"
    /\ outcome.val.prompts[1].type = "FlattenedPrompt"
    /\ outcome.val.prompts[2].type = "Blend"
    /\ outcome.val.weights = <<Two, One>>

\* C27: flattening a Blend keeps its normalize_weights flag: the Blend in the
\* result has the same normalize_weights value as the Blend of the raw tree
\* it was made from.
C27_NormalizeWeightsKept ==
    Flattened =>
        \A i \in 1..Len(root.prompts) :
            root.prompts[i].type = "Blend" =>
                outcome.val.prompts[i].normalize_weights
                    = root.prompts[i].normalize_weights

\* what does hold: the Blend of a result has the flag set, whatever the flag
\* of the raw Blend
C27_NormalizeWeightsSet ==
    Flattened =>
        \A i \in 1..Len(root.prompts) :
            root.prompts[i].type = "Blend" => outcome.val.prompts[i].normalize_weights

\* the grammar matched the text up to its end, whitespace aside
ConsumedAll(text) == SkipWS(text, conjunction(text, 1).loc) > Len(text)

\* C28: no input text is dropped silently: whenever parse returns a result,
\* every non-whitespace part of the input was consumed by the grammar; in
\* particular text that follows the closing parenthesis of an explicit
\* (...).and(...) or of a (...).blend(...) either shows up in the result or
\* makes parse raise.
C28_NoTextDropped ==
    (Parsed /\ outcome.st = "ok" /\ ~IsBlank(prompt)) => ConsumedAll(prompt)

\* what does hold: text is dropped after an explicit (...).and(...) only
C28_DroppedAfterAndOnly ==
    (Parsed /\ outcome.st = "ok" /\ ~IsBlank(prompt) /\ ~Holds(prompt, ".and"))
        => ConsumedAll(prompt)

\* a pair of parentheses with nothing but blanks between them
EmptyParens(text) ==
    \E i \in 1..Len(text) : \E j \in i + 1..Len(text) :
        /\ text[i] = "("
        /\ text[j] = ")"
        /\ \A k \in i + 1..j - 1 : text[k] = " "

\* C29: every FlattenedPrompt in a result of parse has at least one child,
\* whatever the input: also when the input holds an attention head with an
\* empty parenthesized body, or an empty or blank quoted prompt inside a
\* blend or an explicit conjunction.
C29_FlattenedPromptNotEmpty ==
    (Parsed /\ outcome.st = "ok") =>
        \A p \in ResultPrompts : Len(p.children) >= 1

\* what does hold: a FlattenedPrompt without children comes of empty
\* parentheses only
C29_EmptyOnlyOfEmptyParens ==
    (Parsed /\ outcome.st = "ok" /\ ~EmptyParens(prompt)) =>
        \A p \in ResultPrompts : Len(p.children) >= 1

====
